---- MODULE Spec2Model ----
(***************************************************************************)
(* Model of the AI gateway of python-ai-service: the circuit breaker       *)
(* (services/ai/circuit_breaker.py), the provider router                   *)
(* (services/ai/manager.py) and the batch scheduler                        *)
(* (services/ai/batch_processor.py).                                       *)
(*                                                                         *)
(* The service runs on one asyncio event loop.  A coroutine only gives up  *)
(* control at an await that really suspends (a backend call, a sleep, a    *)
(* future); an asyncio.Lock that is free is acquired without suspending,   *)
(* and no lock body of the modelled classes contains a suspending await.   *)
(* Every action below is therefore one run of a coroutine between two      *)
(* suspension points.                                                      *)
(***************************************************************************)
EXTENDS Integers, Sequences, FiniteSets, TLC

(***************************************************************************)
(* Bounds of the model                                                     *)
(***************************************************************************)
FailureThreshold == 3
RecoveryTimeout == 2
MaxTime == 3
NumCallers == 5
NumRequests == 2
MaxCompletes == 2
MaxCalls == 4
MaxFragments == 2
MaxPending == 3
MaxBatchSize == 2
MaxWaitTime == 1
MaxConcurrentBatches == 2
MaxItems == 3
MaxTexts == 2
WaitCeiling == 1

NoTime == 0 - 1

Providers == {"openai", "anthropic", "local"}
DirectBreakers == {"openai"}
Callers == 1..NumCallers

\* the direct callers that consume a stream (call_async_generator); the other
\* callers make single-result calls (call)
Streamers == {1}

KindOf(c) == IF c \in Streamers THEN "gen" ELSE "call"

CircuitBreakerState == {"closed", "open", "half_open"}

VARIABLES
    now,        \* datetime.now(), in model time units
    cb,         \* cb[b]: the CircuitBreaker of backend b (_state, _failure_count, _last_failure_time)
    callPc,     \* callPc[c]: where the direct breaker call of caller c stands
    callProbe,  \* callProbe[c]: the admission of this call moved the breaker Open -> HalfOpen
    callAdm,    \* callAdm[c]: breaker state right after the admission of this call
    gLastFail,  \* history: gLastFail[b] is the time of the most recent failure recorded by b
    gConsec,    \* history: failures recorded by b since its last recorded success or reset
    lastOp,     \* history: the operation performed by the last step
    providers,          \* AIManager.providers: the registered backends, in registration order
    orders,             \* history: the preference lists given to _get_provider_order by a caller that
                        \* uses it alone, each with the candidate order returned
    fallback_strategy,  \* AIManager.fallback_strategy
    enable_local_fallback,  \* AIManager.enable_local_fallback
    rrIndex,            \* AIManager._round_robin_index
    success_rates,      \* AIManager.success_rates[p]: success and failure tallies
    latency_history,    \* AIManager.latency_history[p]
    ledger,             \* CostTracker: the usage records appended by track_usage
    started,            \* number of complete() calls made so far
    req,                \* req[r]: the local state of the complete() call of request slot r
    lastComplete,       \* history: the complete() call that finished in the last step
    running,            \* BatchProcessor._running
    loops,              \* the number of _processing_loop tasks that exist
    stopping,           \* a call of BatchProcessor.stop is between its first line and its return
    strategy,           \* BatchProcessor.config.strategy
    max_batch_size,     \* BatchProcessor.config.max_batch_size
    workload,           \* the kinds of request the clients of the processor submit
    queues,             \* BatchProcessor.queues: request type -> priority -> deque of BatchRequest, in insertion order
    lastBatch,          \* history: the batch that finished in the last step and the callback calls it made
    tasks,              \* the asyncio tasks that are running _process_batch
    active_batches      \* BatchProcessor.active_batches: batch id -> task

cbVars == <<cb, gLastFail, gConsec>>
callVars == <<callPc, callProbe, callAdm>>
routerVars == <<providers, orders, fallback_strategy, enable_local_fallback, rrIndex, success_rates, latency_history,
                ledger, started, req, lastComplete>>
batchVars == <<running, loops, stopping, strategy, max_batch_size, workload, queues, lastBatch, tasks, active_batches>>
vars == <<now, cb, callPc, callProbe, callAdm, gLastFail, gConsec, lastOp,
          providers, orders, fallback_strategy, enable_local_fallback, rrIndex, success_rates, latency_history,
          ledger, started, req, lastComplete,
          running, loops, stopping, strategy, max_batch_size, workload, queues, lastBatch, tasks, active_batches>>

(***************************************************************************)
(* CircuitBreaker                                                          *)
(***************************************************************************)
NewBreaker == [state |-> "closed", failure_count |-> 0, last_failure_time |-> NoTime]

\* variant of _should_attempt_reset that forgets to compare the elapsed time
ShouldAttemptReset_IgnoresElapsed(br, t) ==
    br.last_failure_time # NoTime

\* _should_attempt_reset
ShouldAttemptReset(br, t) ==
    IF br.last_failure_time = NoTime
    THEN FALSE
    ELSE t - br.last_failure_time >= RecoveryTimeout

\* the locked admission block of call / call_async_generator: does it raise?
AdmitRejects(br, t) ==
    br.state = "open" /\ ~ShouldAttemptReset(br, t)

\* the locked admission block: the breaker after a call was let through
AdmitBreaker(br, t) ==
    IF br.state = "open" /\ ShouldAttemptReset(br, t)
    THEN [br EXCEPT !.state = "half_open"]
    ELSE br

\* variant of _on_success that closes a HalfOpen breaker without clearing the counter
OnSuccess_KeepsCount(br) ==
    [state |-> IF br.state = "half_open" THEN "closed" ELSE br.state,
     failure_count |-> IF br.state = "half_open" THEN br.failure_count ELSE 0,
     last_failure_time |-> NoTime]

\* _on_success
OnSuccess(br) ==
    [state |-> IF br.state = "half_open" THEN "closed" ELSE br.state,
     failure_count |-> 0,
     last_failure_time |-> NoTime]

\* variant of _on_failure that opens only above the threshold (> for >=)
OnFailure_StrictThreshold(br, t) ==
    LET n == br.failure_count + 1 IN
    [state |-> IF n > FailureThreshold THEN "open"
               ELSE IF br.state = "half_open" THEN "open"
               ELSE br.state,
     failure_count |-> n,
     last_failure_time |-> t]

\* variant of _on_failure without the HALF_OPEN branch
OnFailure_NoHalfOpenBranch(br, t) ==
    LET n == br.failure_count + 1 IN
    [state |-> IF n >= FailureThreshold THEN "open" ELSE br.state,
     failure_count |-> n,
     last_failure_time |-> t]

\* _on_failure
OnFailure(br, t) ==
    LET n == br.failure_count + 1 IN
    [state |-> IF n >= FailureThreshold THEN "open"
               ELSE IF br.state = "half_open" THEN "open"
               ELSE br.state,
     failure_count |-> n,
     last_failure_time |-> t]

\* variant of call that counts an unexpected exception like an expected one
OnUnexpected_CountsFailure(br) ==
    [br EXCEPT !.failure_count = @ + 1,
               !.state = IF br.failure_count + 1 >= FailureThreshold THEN "open" ELSE @]

\* call, lines 75-78, and call_async_generator, lines 103-106: an exception
\* outside the expected category is logged and raised again
OnUnexpected(br) == br

\* variant of call_async_generator that records a success at every fragment
OnFragment_RecordsSuccess(br) ==
    [state |-> IF br.state = "half_open" THEN "closed" ELSE br.state,
     failure_count |-> 0,
     last_failure_time |-> NoTime]

\* call_async_generator, lines 93-94: a fragment is passed on to the consumer
OnFragment(br) == br

\* reset
ResetBreaker(br) ==
    [state |-> "closed", failure_count |-> 0, last_failure_time |-> NoTime]

NoOp == [op |-> "init", b |-> "none", kind |-> "none", outcome |-> "none",
         probe |-> FALSE, from |-> "none"]

(***************************************************************************)
(* AIManager (the provider router)                                         *)
(***************************************************************************)
Requests == 1..NumRequests

AIModel == {"gpt-4o", "gpt-4-turbo", "gpt-3.5-turbo",
            "claude-3-opus", "claude-3-sonnet", "claude-3-haiku",
            "llama-2-7b", "llama-2-13b", "llama-3-8b", "llama-3-70b", "mistral-7b", "mixtral-8x7b",
            "text-embedding-3-small", "text-embedding-3-large", "text-embedding-ada-002"}

\* the models a caller asks for in the model; "none" is model=None
RequestModels == {"none", "gpt-4o", "llama-3-8b"}

\* the preferred_providers lists a caller passes; <<>> is None or an empty list
PreferenceLists == {<<>>, <<"anthropic">>, <<"local", "openai">>}

\* the sets of backends the service registers, in registration order
Registrations == {<<"openai", "anthropic">>, <<"openai", "local">>}

FallbackStrategy == {"sequential", "random", "round_robin", "least_cost"}

\* the strategies the service is configured with in the runs of complete
RouterStrategies == {"sequential", "random", "round_robin"}

\* float('inf') as a sort key: larger than every cost of MODEL_INFO
Infinity == 1000000

default_provider == "openai"

LatencyWindow == 100

\* SUPPORTED_MODELS of the three providers
SupportedModels(p) ==
    CASE p = "openai" -> {"gpt-4o", "gpt-4-turbo", "gpt-3.5-turbo",
                          "text-embedding-3-small", "text-embedding-3-large",
                          "text-embedding-ada-002"}
      [] p = "anthropic" -> {"claude-3-opus", "claude-3-sonnet", "claude-3-haiku"}
      [] p = "local" -> {"llama-2-7b", "llama-2-13b", "llama-3-8b", "llama-3-70b",
                         "mistral-7b", "mixtral-8x7b"}

\* get_default_model of the three providers
DefaultModel(p) ==
    CASE p = "openai" -> "gpt-4o"
      [] p = "anthropic" -> "claude-3-sonnet"
      [] p = "local" -> "llama-3-8b"

\* _map_model; "none" is None
MapModel(model, p) ==
    CASE p = "anthropic" ->
             IF model \in {"gpt-4o", "gpt-4-turbo"} THEN "claude-3-opus"
             ELSE IF model = "gpt-3.5-turbo" THEN "claude-3-haiku"
             ELSE "none"
      [] p = "local" ->
             IF model \in {"gpt-4o", "gpt-4-turbo", "claude-3-opus"}
             THEN (IF "llama-3-70b" \in SupportedModels("local") THEN "llama-3-70b" ELSE "llama-3-8b")
             ELSE "llama-3-8b"
      [] p = "openai" ->
             IF model = "claude-3-opus" THEN "gpt-4o"
             ELSE IF model = "claude-3-sonnet" THEN "gpt-4-turbo"
             ELSE IF model = "claude-3-haiku" THEN "gpt-3.5-turbo"
             ELSE "none"

Range(seq) == {seq[i] : i \in 1..Len(seq)}

\* the {} that get_model_info returns for a model without entry
EmptyInfo == [backend |-> "none", model |-> "none"]

\* get_model_info: the MODEL_INFO entry of provider p for a model, named by
\* its owner and its model
ModelInfo(p, model) ==
    IF model \in SupportedModels(p) /\ ~(p = "openai" /\ model = "text-embedding-ada-002")
    THEN [backend |-> p, model |-> model]
    ELSE EmptyInfo

\* the registered backends, from position i on, that support the model and
\* have a MODEL_INFO entry for it
RECURSIVE ProfileFrom(_, _)
ProfileFrom(i, model) ==
    IF i > Len(providers) THEN EmptyInfo
    ELSE IF model \in SupportedModels(providers[i]) /\ ModelInfo(providers[i], model) # EmptyInfo
         THEN ModelInfo(providers[i], model)
         ELSE ProfileFrom(i + 1, model)

\* variant of _calculate_cost that reads the profile of the first registered
\* backend for the default model of that backend
CalculateCost_OfFirstBackend(model) ==
    ModelInfo(providers[1], DefaultModel(providers[1]))

\* _calculate_cost: the MODEL_INFO entry the cost is computed from (EmptyInfo
\* when 0.0 is returned without any entry)
CalculateCost(model) == ProfileFrom(1, model)

\* _calculate_embedding_cost
CalculateEmbeddingCost(model) == ProfileFrom(1, model)

\* MODEL_INFO: input_cost_per_1k and output_cost_per_1k of a model, in units of
\* 0.00001 dollar; info.get(key, 0) gives 0 for an entry without these keys
\* (the embedding models of openai, every model of local)
InputCostPer1k(p, model) ==
    CASE model = "gpt-4o" -> 500
      [] model = "gpt-4-turbo" -> 1000
      [] model = "gpt-3.5-turbo" -> 50
      [] model = "claude-3-opus" -> 1500
      [] model = "claude-3-sonnet" -> 300
      [] model = "claude-3-haiku" -> 25
      [] OTHER -> 0

OutputCostPer1k(p, model) ==
    CASE model = "gpt-4o" -> 1500
      [] model = "gpt-4-turbo" -> 3000
      [] model = "gpt-3.5-turbo" -> 150
      [] model = "claude-3-opus" -> 7500
      [] model = "claude-3-sonnet" -> 1500
      [] model = "claude-3-haiku" -> 125
      [] OTHER -> 0

\* variant of _get_model_cost that prices the requested model without mapping it
GetModelCost_NoMapping(model, p) ==
    IF p \notin Range(providers) \/ model \notin SupportedModels(p) THEN Infinity
    ELSE IF ModelInfo(p, model) # EmptyInfo
         THEN (InputCostPer1k(p, model) + OutputCostPer1k(p, model)) \div 2
         ELSE IF p = "local" THEN 0 ELSE Infinity

\* _get_model_cost: the sort key of backend p under least_cost
GetModelCost(model, p) ==
    IF p \notin Range(providers) THEN Infinity
    ELSE LET m == IF model \in SupportedModels(p) THEN model ELSE MapModel(model, p) IN
         IF m = "none" THEN Infinity
         ELSE IF ModelInfo(p, m) # EmptyInfo
              THEN (InputCostPer1k(p, m) + OutputCostPer1k(p, m)) \div 2
              ELSE IF p = "local" THEN 0 ELSE Infinity

\* list.sort(key=lambda p: self._get_model_cost(model, p)): ascending by key,
\* equal keys in their previous order
SortByCost(seq, model) ==
    LET n == Len(seq)
        Key(q) == GetModelCost(model, q)
        before(i) == {j \in 1..n : \/ Key(seq[j]) < Key(seq[i])
                                    \/ (Key(seq[j]) = Key(seq[i]) /\ j < i)}
    IN [k \in 1..n |-> seq[CHOOSE i \in 1..n : Cardinality(before(i)) = k - 1]]

\* list.remove(x): the list without its first occurrence of x
RemoveFirst(seq, x) ==
    LET i == CHOOSE k \in 1..Len(seq) : seq[k] = x /\ \A j \in 1..(k - 1) : seq[j] # x
    IN [j \in 1..(Len(seq) - 1) |-> IF j < i THEN seq[j] ELSE seq[j + 1]]

\* list.remove(x) followed by list.insert(0, x)
MoveToFront(seq, x) == <<x>> \o RemoveFirst(seq, x)

\* the results random.shuffle can leave in the list
Shuffles(seq) ==
    {[i \in 1..Len(seq) |-> seq[f[i]]] :
        f \in {g \in [1..Len(seq) -> 1..Len(seq)] : \A i, j \in 1..Len(seq) : g[i] = g[j] => i = j}}

\* _get_provider_order, first step: the registered backends, filtered by the preference list
AvailableProviders(pref) ==
    IF pref # <<>>
    THEN SelectSeq(pref, LAMBDA q : q \in Range(providers))
    ELSE providers

\* variant of _get_provider_order whose round-robin cursor is not advanced
ProviderOrders_CursorStays(model, pref) ==
    LET avail == AvailableProviders(pref) IN
    IF fallback_strategy = "round_robin" /\ avail # <<>>
    THEN LET k == rrIndex % Len(avail) IN
         {[order |-> MoveToFront(avail, avail[k + 1]), rr |-> k]}
    ELSE {[order |-> IF default_provider \in Range(avail)
                     THEN MoveToFront(avail, default_provider) ELSE avail,
           rr |-> rrIndex]}

\* _get_provider_order: the candidate orders it can return, each with the cursor it leaves
ProviderOrders(model, pref) ==
    LET avail == AvailableProviders(pref) IN
    CASE fallback_strategy = "sequential" ->
             {[order |-> IF default_provider \in Range(avail)
                         THEN MoveToFront(avail, default_provider) ELSE avail,
               rr |-> rrIndex]}
      [] fallback_strategy = "random" ->
             {[order |-> o, rr |-> rrIndex] : o \in Shuffles(avail)}
      [] fallback_strategy = "round_robin" ->
             IF avail # <<>>
             THEN LET k == rrIndex % Len(avail) IN
                  {[order |-> MoveToFront(avail, avail[k + 1]), rr |-> k + 1]}
             ELSE {[order |-> avail, rr |-> rrIndex]}
      [] fallback_strategy = "least_cost" ->
             {[order |-> IF model # "none"
                         THEN SortByCost(avail, model)
                         ELSE avail,
               rr |-> rrIndex]}

\* variant of the candidate test without the circuit breaker check
Examine_IgnoresBreaker(p, model, cbs) ==
    IF model # "none" /\ model \notin SupportedModels(p) /\ MapModel(model, p) = "none"
    THEN "skipped_nomap"
    ELSE "invoke"

\* complete, lines 133-147: what the loop does with candidate p before any call
Examine(p, model, cbs) ==
    IF cbs[p].state = "open" THEN "skipped_open"
    ELSE IF model # "none" /\ model \notin SupportedModels(p) /\ MapModel(model, p) = "none"
         THEN "skipped_nomap"
         ELSE "invoke"

\* complete, lines 140-147: the model sent to candidate p
ModelToUse(p, model) ==
    IF model # "none" /\ model \notin SupportedModels(p)
    THEN MapModel(model, p)
    ELSE IF model # "none" THEN model ELSE DefaultModel(p)

\* one entry of the history of a complete() call
LogEntry(p, outcome, cbs) == [p |-> p, outcome |-> outcome, state |-> cbs[p].state]

\* variant of the loop that ends at a candidate without a model mapping (break for continue)
RECURSIVE Scan_StopsAtNoMapping(_, _, _, _)
Scan_StopsAtNoMapping(order, i, model, cbs) ==
    IF i > Len(order)
    THEN [idx |-> i, log |-> <<>>, rejected |-> <<>>]
    ELSE LET p == order[i]
             e == Examine(p, model, cbs)
         IN IF e = "invoke" /\ ~AdmitRejects(cbs[p], now)
            THEN [idx |-> i, log |-> <<>>, rejected |-> <<>>]
            ELSE IF e = "skipped_nomap"
            THEN [idx |-> Len(order) + 1, log |-> <<LogEntry(p, e, cbs)>>, rejected |-> <<>>]
            ELSE LET rest == Scan_StopsAtNoMapping(order, i + 1, model, cbs)
                     out == IF e = "invoke" THEN "rejected" ELSE e
                 IN [idx |-> rest.idx,
                     log |-> <<LogEntry(p, out, cbs)>> \o rest.log,
                     rejected |-> (IF e = "invoke" THEN <<p>> ELSE <<>>) \o rest.rejected]

\* variant of the loop that tallies a failure for a candidate skipped for its Open breaker
RECURSIVE Scan_TalliesSkipped(_, _, _, _)
Scan_TalliesSkipped(order, i, model, cbs) ==
    IF i > Len(order)
    THEN [idx |-> i, log |-> <<>>, rejected |-> <<>>]
    ELSE LET p == order[i]
             e == Examine(p, model, cbs)
         IN IF e = "invoke" /\ ~AdmitRejects(cbs[p], now)
            THEN [idx |-> i, log |-> <<>>, rejected |-> <<>>]
            ELSE LET rest == Scan_TalliesSkipped(order, i + 1, model, cbs)
                     out == IF e = "invoke" THEN "rejected" ELSE e
                 IN [idx |-> rest.idx,
                     log |-> <<LogEntry(p, out, cbs)>> \o rest.log,
                     rejected |-> (IF e \in {"invoke", "skipped_open"} THEN <<p>> ELSE <<>>)
                                     \o rest.rejected]

\* complete, the for loop from candidate i on, up to the next backend invocation:
\* the candidates passed over and the position of the candidate that is invoked
\* (Len(order) + 1 when the list is exhausted).  A call that the breaker itself
\* rejects raises inside the try block: it is tallied as a failure.
RECURSIVE Scan(_, _, _, _)
Scan(order, i, model, cbs) ==
    IF i > Len(order)
    THEN [idx |-> i, log |-> <<>>, rejected |-> <<>>]
    ELSE LET p == order[i]
             e == Examine(p, model, cbs)
         IN IF e = "invoke" /\ ~AdmitRejects(cbs[p], now)
            THEN [idx |-> i, log |-> <<>>, rejected |-> <<>>]
            ELSE LET rest == Scan(order, i + 1, model, cbs)
                     out == IF e = "invoke" THEN "rejected" ELSE e
                 IN [idx |-> rest.idx,
                     log |-> <<LogEntry(p, out, cbs)>> \o rest.log,
                     rejected |-> (IF e = "invoke" THEN <<p>> ELSE <<>>) \o rest.rejected]

\* _track_failure applied once for every backend of the list ps
RECURSIVE TrackFailures(_, _)
TrackFailures(rates, ps) ==
    IF ps = <<>> THEN rates
    ELSE TrackFailures([rates EXCEPT ![Head(ps)].failure = @ + 1], Tail(ps))

\* variant of _track_success that never drops a sample
TrackLatency_KeepsAll(history, latency) == Append(history, latency)

\* _track_success: the latency history of a backend after one more sample
TrackLatency(history, latency) ==
    LET h == Append(history, latency) IN
    IF Len(h) > LatencyWindow
    THEN SubSeq(h, Len(h) - LatencyWindow + 1, Len(h))
    ELSE h

IdleRequest == [pc |-> "idle", model |-> "none", user |-> FALSE, order |-> <<>>, idx |-> 0,
                used |-> "none", last_error |-> "none", start |-> 0, log |-> <<>>,
                yielded |-> <<>>]

NoComplete == [outcome |-> "none", server |-> "none", response |-> "none", model |-> "none",
               order |-> <<>>, log |-> <<>>, last_error |-> "none"]

\* a breaker that earlier traffic has opened at time 0
OpenedBreaker == [state |-> "open", failure_count |-> FailureThreshold, last_failure_time |-> 0]

InitRouterQuiet ==
    /\ providers = <<"openai", "anthropic", "local">>
    /\ orders = <<>>
    /\ enable_local_fallback = TRUE
    /\ fallback_strategy = "sequential"
    /\ rrIndex = 0
    /\ success_rates = [p \in Providers |-> [success |-> 0, failure |-> 0]]
    /\ latency_history = [p \in Providers |-> <<>>]
    /\ ledger = <<>>
    /\ started = 0
    /\ req = [r \in Requests |-> IdleRequest]
    /\ lastComplete = NoComplete


(***************************************************************************)
(* BatchProcessor (the batch scheduler)                                    *)
(***************************************************************************)
\* 'texts': None in the data of an embedding request
NoneTexts == 0 - 1

\* the requests a client submits: BatchRequest.id, request_type, priority and,
\* for an embedding request, the number of texts in its data (completion
\* requests carry no 'model' key)
Shape(id, type, priority, ntexts) ==
    [id |-> id, type |-> type, priority |-> priority, ntexts |-> ntexts]

\* the mixes of requests the clients submit in one run
Workloads ==
    {{Shape("a", "completion", 2, 0), Shape("b", "completion", 2, 0)},
     {Shape("a", "embedding", 2, 1), Shape("b", "embedding", 2, 0),
      Shape("a", "embedding", 1, NoneTexts)},
     {Shape("a", "generation", 1, 0), Shape("a", "other", 2, 0)},
     {Shape("a", "completion", 2, 0)}}

BatchStrategy == {"immediate", "size_based", "time_based", "hybrid"}

\* the strategies that decide by one rule
SingleRuleStrategies == BatchStrategy \ {"hybrid"}

\* BatchConfig: the defaults of max_batch_size and priority_boost_factor
DefaultMaxBatchSize == 10
PriorityBoostFactor == 2

\* the mixes of requests submitted to a processor that runs the hybrid strategy
\* (Priority: LOW = 1, NORMAL = 2, HIGH = 3, URGENT = 4)
HybridWorkloads ==
    {{Shape("a", "completion", 1, 0)},
     {Shape("a", "completion", 1, 0), Shape("b", "completion", 4, 0)},
     {Shape("a", "generation", 2, 0), Shape("b", "generation", 3, 0)}}

\* no batch finished in the last step
NoBatch == [type |-> "none", reqs |-> <<>>, calls |-> <<>>]

InitBatchQuiet ==
    /\ running = FALSE
    /\ loops = 0
    /\ stopping = FALSE
    /\ strategy = "immediate"
    /\ max_batch_size = MaxBatchSize
    /\ workload = {}
    /\ queues = <<>>
    /\ lastBatch = NoBatch
    /\ tasks = {}
    /\ active_batches = {}

(***************************************************************************)
(* Direct callers of a breaker (services/content/comprehensive_generator)  *)
(***************************************************************************)
InitBreakerPart ==
    /\ now = 0
    /\ cb = [b \in Providers |-> NewBreaker]
    /\ gLastFail = [b \in Providers |-> NoTime]
    /\ gConsec = [b \in Providers |-> 0]
    /\ lastOp = NoOp

InitCallers ==
    /\ callPc = [c \in Callers |-> "idle"]
    /\ callProbe = [c \in Callers |-> FALSE]
    /\ callAdm = [c \in Callers |-> "none"]

\* time passes
Tick ==
    /\ now < MaxTime
    /\ now' = now + 1
    /\ lastOp' = [NoOp EXCEPT !.op = "tick"]
    /\ UNCHANGED <<cbVars, callVars, routerVars, batchVars>>

\* CircuitBreaker.call / call_async_generator up to the backend invocation
CallBegin(c, b, kind) ==
    /\ callPc[c] = "idle"
    /\ IF AdmitRejects(cb[b], now)
       THEN /\ UNCHANGED <<cb, callVars>>
            /\ lastOp' = [op |-> "begin", b |-> b, kind |-> kind, outcome |-> "rejected",
                          probe |-> FALSE, from |-> cb[b].state]
       ELSE /\ callPc' = [callPc EXCEPT ![c] = "inflight"]
            /\ cb' = [cb EXCEPT ![b] = AdmitBreaker(cb[b], now)]
            /\ callProbe' = [callProbe EXCEPT ![c] = (cb[b].state = "open")]
            /\ callAdm' = [callAdm EXCEPT ![c] = cb'[b].state]
            /\ lastOp' = [op |-> "begin", b |-> b, kind |-> kind, outcome |-> "admitted",
                          probe |-> (cb[b].state = "open"), from |-> cb[b].state]
    /\ UNCHANGED <<now, gLastFail, gConsec, routerVars, batchVars>>

\* the call leaves the breaker: its caller is free for another call
CallReturns(c) ==
    /\ callPc' = [callPc EXCEPT ![c] = "idle"]
    /\ callProbe' = [callProbe EXCEPT ![c] = FALSE]
    /\ callAdm' = [callAdm EXCEPT ![c] = "none"]

\* the wrapped function returns / the wrapped generator is exhausted
CallSucceeds(c, b) ==
    /\ callPc[c] = "inflight"
    /\ CallReturns(c)
    /\ cb' = [cb EXCEPT ![b] = OnSuccess(cb[b])]
    /\ gConsec' = [gConsec EXCEPT ![b] = 0]
    /\ lastOp' = [op |-> "end", b |-> b, kind |-> KindOf(c), outcome |-> "ok",
                  probe |-> callProbe[c], from |-> cb[b].state]
    /\ UNCHANGED <<now, gLastFail, routerVars, batchVars>>

\* the wrapped function or generator raises an exception of the expected category
CallFails(c, b) ==
    /\ callPc[c] = "inflight"
    /\ CallReturns(c)
    /\ cb' = [cb EXCEPT ![b] = OnFailure(cb[b], now)]
    /\ gConsec' = [gConsec EXCEPT ![b] = @ + 1]
    /\ gLastFail' = [gLastFail EXCEPT ![b] = now]
    /\ lastOp' = [op |-> "end", b |-> b, kind |-> KindOf(c), outcome |-> "failed",
                  probe |-> callProbe[c], from |-> cb[b].state]
    /\ UNCHANGED <<now, routerVars, batchVars>>

\* the wrapped function or generator raises an exception outside the expected category
CallFailsUnexpected(c, b) ==
    /\ callPc[c] = "inflight"
    /\ CallReturns(c)
    /\ lastOp' = [op |-> "end", b |-> b, kind |-> KindOf(c), outcome |-> "unexpected",
                  probe |-> callProbe[c], from |-> cb[b].state]
    /\ cb' = [cb EXCEPT ![b] = OnUnexpected(cb[b])]
    /\ UNCHANGED <<now, gLastFail, gConsec, routerVars, batchVars>>

\* the wrapped generator yields a fragment, which the consumer takes
StreamYields(c, b) ==
    /\ c \in Streamers
    /\ callPc[c] = "inflight"
    /\ cb' = [cb EXCEPT ![b] = OnFragment(cb[b])]
    /\ lastOp' = [op |-> "fragment", b |-> b, kind |-> KindOf(c), outcome |-> "none",
                  probe |-> callProbe[c], from |-> cb[b].state]
    /\ UNCHANGED <<now, callVars, gLastFail, gConsec, routerVars, batchVars>>

\* CircuitBreaker.reset
ManualReset(b) ==
    /\ cb' = [cb EXCEPT ![b] = ResetBreaker(cb[b])]
    /\ gConsec' = [gConsec EXCEPT ![b] = 0]
    /\ gLastFail' = [gLastFail EXCEPT ![b] = NoTime]
    /\ lastOp' = [NoOp EXCEPT !.op = "reset", !.b = b, !.from = cb[b].state]
    /\ UNCHANGED <<now, callVars, routerVars, batchVars>>

NextBreaker ==
    \/ Tick
    \/ \E c \in Callers, b \in DirectBreakers : CallBegin(c, b, KindOf(c))
    \/ \E c \in Callers, b \in DirectBreakers : StreamYields(c, b)
    \/ \E c \in Callers, b \in DirectBreakers : CallSucceeds(c, b)
    \/ \E c \in Callers, b \in DirectBreakers : CallFails(c, b)
    \/ \E c \in Callers, b \in DirectBreakers : CallFailsUnexpected(c, b)
    \/ \E b \in DirectBreakers : ManualReset(b)

InitBreaker == InitBreakerPart /\ InitCallers /\ InitRouterQuiet /\ InitBatchQuiet

SpecBreaker == InitBreaker /\ [][NextBreaker]_vars

(***************************************************************************)
(* AIManager.complete                                                      *)
(***************************************************************************)
InitRouter ==
    /\ now = 0
    /\ providers \in Registrations
    /\ orders = <<>>
    /\ enable_local_fallback \in (IF "local" \in Range(providers) THEN BOOLEAN ELSE {TRUE})
    /\ fallback_strategy \in RouterStrategies
    /\ \E opened \in SUBSET Range(providers) :
          /\ cb = [b \in Providers |-> IF b \in opened THEN OpenedBreaker ELSE NewBreaker]
          /\ gLastFail = [b \in Providers |-> IF b \in opened THEN 0 ELSE NoTime]
          /\ gConsec = [b \in Providers |-> IF b \in opened THEN FailureThreshold ELSE 0]
    /\ lastOp = NoOp
    /\ rrIndex = 0
    /\ success_rates = [p \in Providers |-> [success |-> 0, failure |-> 0]]
    /\ latency_history = [p \in Providers |-> <<>>]
    /\ ledger = <<>>
    /\ started = 0
    /\ req = [r \in Requests |-> IdleRequest]
    /\ lastComplete = NoComplete
    /\ InitCallers
    /\ InitBatchQuiet

\* complete, from candidate i of request r on: either the next backend invocation
\* is started or the candidate list is exhausted and the call raises
Proceed(r, rq, i, cbs, rates) ==
    LET sc == Scan(rq.order, i, rq.model, cbs)
        log == rq.log \o sc.log
        err == IF sc.rejected # <<>> THEN sc.rejected[Len(sc.rejected)] ELSE rq.last_error
    IN /\ success_rates' = TrackFailures(rates, sc.rejected)
       /\ IF sc.idx <= Len(rq.order)
          THEN LET p == rq.order[sc.idx] IN
               /\ cb' = [cbs EXCEPT ![p] = AdmitBreaker(cbs[p], now)]
               /\ req' = [req EXCEPT ![r] = [rq EXCEPT !.pc = "calling", !.idx = sc.idx,
                                                        !.used = ModelToUse(p, rq.model),
                                                        !.last_error = err, !.log = log]]
               /\ lastComplete' = NoComplete
          ELSE /\ cb' = cbs
               /\ req' = [req EXCEPT ![r] = IdleRequest]
               /\ lastComplete' = [outcome |-> "exhausted", server |-> "none",
                                   response |-> "none", model |-> rq.model,
                                   order |-> rq.order, log |-> log, last_error |-> err]

\* complete is called: the candidate order is computed and the loop runs up to
\* the first backend invocation
CompleteBegin(r, model, pref, user) ==
    /\ req[r].pc = "idle"
    /\ \A q \in 1..(r - 1) : req[q].pc # "idle"
    /\ started < MaxCompletes
    /\ started' = started + 1
    /\ \E o \in ProviderOrders(model, pref) :
          /\ rrIndex' = o.rr
          /\ Proceed(r, [IdleRequest EXCEPT !.model = model, !.user = user,
                                            !.order = o.order, !.start = now],
                     1, cb, success_rates)
    /\ lastOp' = [NoOp EXCEPT !.op = "complete_begin"]
    /\ UNCHANGED <<now, gLastFail, gConsec, callVars, providers, orders, fallback_strategy, enable_local_fallback,
                   latency_history, ledger, batchVars>>

\* the backend invoked by request r returns a response: lines 157-182
CompleteCallSucceeds(r) ==
    /\ req[r].pc = "calling"
    /\ LET rq == req[r]
           p == rq.order[rq.idx]
           response == [backend |-> p, model |-> rq.used]
       IN /\ cb' = [cb EXCEPT ![p] = OnSuccess(cb[p])]
          /\ gConsec' = [gConsec EXCEPT ![p] = 0]
          /\ success_rates' = [success_rates EXCEPT ![p].success = @ + 1]
          /\ latency_history' = [latency_history EXCEPT ![p] = TrackLatency(@, now - rq.start)]
          /\ ledger' = IF rq.user
                       THEN Append(ledger, [provider |-> p, model |-> rq.used,
                                            cost |-> CalculateCost(rq.used)])
                       ELSE ledger
          /\ req' = [req EXCEPT ![r] = IdleRequest]
          /\ lastComplete' = [outcome |-> "success", server |-> p, response |-> response,
                              model |-> rq.model, order |-> rq.order,
                              log |-> Append(rq.log, LogEntry(p, "ok", cb)),
                              last_error |-> rq.last_error]
          /\ lastOp' = [NoOp EXCEPT !.op = "complete_end", !.b = p, !.outcome = "ok",
                                    !.from = cb[p].state]
    /\ UNCHANGED <<now, gLastFail, callVars, providers, orders, fallback_strategy, enable_local_fallback, rrIndex, started,
                   batchVars>>

\* the backend invoked by request r raises: lines 184-188, then the loop goes on
CompleteCallFails(r) ==
    /\ req[r].pc = "calling"
    /\ LET rq == req[r]
           p == rq.order[rq.idx]
           cbs == [cb EXCEPT ![p] = OnFailure(cb[p], now)]
           rates == [success_rates EXCEPT ![p].failure = @ + 1]
       IN /\ gConsec' = [gConsec EXCEPT ![p] = @ + 1]
          /\ gLastFail' = [gLastFail EXCEPT ![p] = now]
          /\ Proceed(r, [rq EXCEPT !.last_error = p,
                                   !.log = Append(rq.log, LogEntry(p, "failed", cb))],
                     rq.idx + 1, cbs, rates)
          /\ lastOp' = [NoOp EXCEPT !.op = "complete_end", !.b = p, !.outcome = "failed",
                                    !.from = cb[p].state]
    /\ UNCHANGED <<now, callVars, providers, orders, fallback_strategy, enable_local_fallback, rrIndex, latency_history,
                   ledger, started, batchVars>>

\* variant of embed that tries every registered backend
EmbedOrder_AllRegistered == providers

\* embed, lines 294-302: the backends embed tries, in order
EmbedOrder ==
    SelectSeq((IF enable_local_fallback THEN <<"openai", "local">> ELSE <<"openai">>),
              LAMBDA q : q \in Range(providers))

\* embed, lines 306-311: the model sent to backend p when the caller names none
EmbedModel(p) == IF p = "openai" THEN "text-embedding-3-small" ELSE DefaultModel(p)

\* embed is called and invokes its first backend
EmbedBegin(r, user) ==
    /\ req[r].pc = "idle"
    /\ \A q \in 1..(r - 1) : req[q].pc # "idle"
    /\ started < MaxCompletes
    /\ EmbedOrder # <<>>
    /\ started' = started + 1
    /\ req' = [req EXCEPT ![r] = [IdleRequest EXCEPT !.pc = "embedding", !.user = user,
                                                     !.order = EmbedOrder, !.idx = 1,
                                                     !.used = EmbedModel(EmbedOrder[1]),
                                                     !.start = now]]
    /\ lastComplete' = NoComplete
    /\ lastOp' = [NoOp EXCEPT !.op = "embed_begin"]
    /\ UNCHANGED <<now, cbVars, callVars, providers, orders, fallback_strategy, enable_local_fallback, rrIndex, success_rates,
                   latency_history, ledger, batchVars>>

\* the backend invoked by embed returns: lines 313-329
EmbedCallSucceeds(r) ==
    /\ req[r].pc = "embedding"
    /\ LET rq == req[r]
           p == rq.order[rq.idx]
       IN /\ ledger' = IF rq.user
                       THEN Append(ledger, [provider |-> p, model |-> rq.used,
                                            cost |-> CalculateEmbeddingCost(rq.used)])
                       ELSE ledger
          /\ lastOp' = [NoOp EXCEPT !.op = "embed_end", !.b = p, !.outcome = "ok",
                                    !.from = cb[p].state]
    /\ req' = [req EXCEPT ![r] = IdleRequest]
    /\ lastComplete' = NoComplete
    /\ UNCHANGED <<now, cbVars, callVars, providers, orders, fallback_strategy, enable_local_fallback, rrIndex, success_rates,
                   latency_history, started, batchVars>>

\* the backend invoked by embed raises: lines 331-336, then the next backend is
\* invoked or embed raises "All embedding providers failed" with the exception
\* of backend p as last error (lastOp.kind = "all_failed", lastOp.b = p)
EmbedCallFails(r) ==
    /\ req[r].pc = "embedding"
    /\ LET rq == req[r]
           p == rq.order[rq.idx]
       IN /\ req' = [req EXCEPT ![r] =
                        IF rq.idx < Len(rq.order)
                        THEN [rq EXCEPT !.idx = rq.idx + 1, !.last_error = p,
                                        !.used = EmbedModel(rq.order[rq.idx + 1])]
                        ELSE IdleRequest]
          /\ lastOp' = [NoOp EXCEPT !.op = "embed_end", !.b = p, !.outcome = "failed",
                                    !.kind = IF rq.idx < Len(rq.order) THEN "none"
                                             ELSE "all_failed",
                                    !.from = cb[p].state]
    /\ lastComplete' = NoComplete
    /\ UNCHANGED <<now, cbVars, callVars, providers, orders, fallback_strategy, enable_local_fallback, rrIndex, success_rates,
                   latency_history, ledger, started, batchVars>>

NextRouter ==
    \/ \E r \in Requests, model \in RequestModels, pref \in PreferenceLists, user \in BOOLEAN :
          CompleteBegin(r, model, pref, user)
    \/ \E r \in Requests : CompleteCallSucceeds(r)
    \/ \E r \in Requests : CompleteCallFails(r)
    \/ \E r \in Requests, user \in BOOLEAN : EmbedBegin(r, user)
    \/ \E r \in Requests : EmbedCallSucceeds(r)
    \/ \E r \in Requests : EmbedCallFails(r)

SpecRouter == InitRouter /\ [][NextRouter]_vars

(***************************************************************************)
(* AIManager.complete_stream                                               *)
(***************************************************************************)
\* complete_stream, from candidate i of request r on: either the stream of the
\* next backend is opened through call_async_generator or the candidate list is
\* exhausted and the call raises (lastOp.kind = "all_failed")
StreamProceed(r, rq, i, cbs, rates, op) ==
    LET sc == Scan(rq.order, i, rq.model, cbs)
        err == IF sc.rejected # <<>> THEN sc.rejected[Len(sc.rejected)] ELSE rq.last_error
    IN /\ success_rates' = TrackFailures(rates, sc.rejected)
       /\ IF sc.idx <= Len(rq.order)
          THEN LET p == rq.order[sc.idx] IN
               /\ cb' = [cbs EXCEPT ![p] = AdmitBreaker(cbs[p], now)]
               /\ req' = [req EXCEPT ![r] = [rq EXCEPT !.pc = "streaming", !.idx = sc.idx,
                                                        !.used = ModelToUse(p, rq.model),
                                                        !.last_error = err,
                                                        !.log = rq.log \o sc.log]]
               /\ lastOp' = op
          ELSE /\ cb' = cbs
               /\ req' = [req EXCEPT ![r] = IdleRequest]
               /\ lastOp' = [op EXCEPT !.kind = "all_failed"]

\* complete_stream is called and its caller starts to iterate: lines 201-246
StreamBegin(r, model, pref, user) ==
    /\ req[r].pc = "idle"
    /\ \A q \in 1..(r - 1) : req[q].pc # "idle"
    /\ started < MaxCompletes
    /\ started' = started + 1
    /\ \E o \in ProviderOrders(model, pref) :
          /\ rrIndex' = o.rr
          /\ StreamProceed(r, [IdleRequest EXCEPT !.model = model, !.user = user,
                                                  !.order = o.order, !.start = now],
                           1, cb, success_rates, [NoOp EXCEPT !.op = "stream_begin"])
    /\ lastComplete' = NoComplete
    /\ UNCHANGED <<now, gLastFail, gConsec, callVars, providers, orders, fallback_strategy,
                   enable_local_fallback, latency_history, ledger, batchVars>>

\* the backend of request r produces a chunk and complete_stream yields it to
\* its caller: lines 244-247
StreamChunk(r) ==
    /\ req[r].pc = "streaming"
    /\ Len(req[r].yielded) < MaxFragments
    /\ LET p == req[r].order[req[r].idx]
       IN /\ cb' = [cb EXCEPT ![p] = OnFragment(cb[p])]
          /\ req' = [req EXCEPT ![r].yielded = Append(@, p)]
          /\ lastOp' = [NoOp EXCEPT !.op = "stream_chunk", !.b = p]
    /\ lastComplete' = NoComplete
    /\ UNCHANGED <<now, gLastFail, gConsec, callVars, providers, orders, fallback_strategy,
                   enable_local_fallback, rrIndex, success_rates, latency_history, ledger,
                   started, batchVars>>

\* the stream of the backend ends: lines 249-276
StreamEnds(r) ==
    /\ req[r].pc = "streaming"
    /\ LET rq == req[r]
           p == rq.order[rq.idx]
       IN /\ cb' = [cb EXCEPT ![p] = OnSuccess(cb[p])]
          /\ gConsec' = [gConsec EXCEPT ![p] = 0]
          /\ success_rates' = [success_rates EXCEPT ![p].success = @ + 1]
          /\ latency_history' = [latency_history EXCEPT ![p] = TrackLatency(@, now - rq.start)]
          /\ ledger' = IF rq.user
                       THEN Append(ledger, [provider |-> p, model |-> rq.used,
                                            cost |-> CalculateCost(rq.used)])
                       ELSE ledger
          /\ req' = [req EXCEPT ![r] = IdleRequest]
          /\ lastOp' = [NoOp EXCEPT !.op = "stream_end", !.b = p, !.outcome = "ok",
                                    !.from = cb[p].state]
    /\ lastComplete' = NoComplete
    /\ UNCHANGED <<now, gLastFail, callVars, providers, orders, fallback_strategy,
                   enable_local_fallback, rrIndex, started, batchVars>>

\* the stream of the backend raises, before or after chunks of it were yielded:
\* lines 278-282, then the loop goes on with the next candidate
StreamFails(r) ==
    /\ req[r].pc = "streaming"
    /\ LET rq == req[r]
           p == rq.order[rq.idx]
           cbs == [cb EXCEPT ![p] = OnFailure(cb[p], now)]
           rates == [success_rates EXCEPT ![p].failure = @ + 1]
       IN /\ gConsec' = [gConsec EXCEPT ![p] = @ + 1]
          /\ gLastFail' = [gLastFail EXCEPT ![p] = now]
          /\ StreamProceed(r, [rq EXCEPT !.last_error = p,
                                         !.log = Append(rq.log, LogEntry(p, "failed", cb))],
                           rq.idx + 1, cbs, rates,
                           [NoOp EXCEPT !.op = "stream_end", !.b = p, !.outcome = "failed",
                                        !.from = cb[p].state])
    /\ lastComplete' = NoComplete
    /\ UNCHANGED <<now, callVars, providers, orders, fallback_strategy, enable_local_fallback,
                   rrIndex, latency_history, ledger, started, batchVars>>

NextStream ==
    \/ \E r \in Requests, model \in RequestModels, pref \in PreferenceLists, user \in BOOLEAN :
          StreamBegin(r, model, pref, user)
    \/ \E r \in Requests : StreamChunk(r)
    \/ \E r \in Requests : StreamEnds(r)
    \/ \E r \in Requests : StreamFails(r)

SpecStream == InitRouter /\ [][NextStream]_vars

(***************************************************************************)
(* AIManager.complete while time passes                                    *)
(***************************************************************************)
InitRecover == InitRouter /\ fallback_strategy = "sequential"

NextRecover == NextRouter \/ Tick

SpecRecover == InitRecover /\ [][NextRecover]_vars

(***************************************************************************)
(* AIManager.complete and complete_stream on a service that has been up    *)
(* for some time                                                           *)
(***************************************************************************)
\* the latency history of a backend that has served LatencyWindow calls, with
\* latencies 1, 0, 1, 0, ...
FullHistory == [i \in 1..LatencyWindow |-> i % 2]

LatencyPreferences == {<<>>, <<"anthropic">>}

InitLatency ==
    /\ now = 0
    /\ providers = <<"openai", "anthropic">>
    /\ orders = <<>>
    /\ enable_local_fallback = TRUE
    /\ fallback_strategy = "sequential"
    /\ cb = [b \in Providers |-> NewBreaker]
    /\ gLastFail = [b \in Providers |-> NoTime]
    /\ gConsec = [b \in Providers |-> 0]
    /\ lastOp = NoOp
    /\ rrIndex = 0
    /\ \E aged \in {{}, Range(providers)} :
          /\ latency_history = [p \in Providers |-> IF p \in aged THEN FullHistory ELSE <<>>]
          /\ success_rates = [p \in Providers |->
                                 [success |-> IF p \in aged THEN LatencyWindow ELSE 0,
                                  failure |-> 0]]
    /\ ledger = <<>>
    /\ started = 0
    /\ req = [r \in Requests |-> IdleRequest]
    /\ lastComplete = NoComplete
    /\ InitCallers
    /\ InitBatchQuiet

NextLatency ==
    \/ Tick
    \/ \E r \in Requests, pref \in LatencyPreferences : CompleteBegin(r, "none", pref, FALSE)
    \/ \E r \in Requests : CompleteCallSucceeds(r)
    \/ \E r \in Requests : CompleteCallFails(r)
    \/ \E r \in Requests, pref \in LatencyPreferences : StreamBegin(r, "none", pref, FALSE)
    \/ \E r \in Requests : StreamChunk(r)
    \/ \E r \in Requests : StreamEnds(r)
    \/ \E r \in Requests : StreamFails(r)

SpecLatency == InitLatency /\ [][NextLatency]_vars

(***************************************************************************)
(* AIManager._get_provider_order, called MaxCalls times                    *)
(***************************************************************************)
\* the registrations, strategies and preference lists of these calls
OrderRegistrations == {<<"openai", "anthropic", "local">>, <<"anthropic", "local">>}

OrderStrategies == {"sequential", "round_robin"}

OrderPreferences == {<<>>, <<"local", "anthropic">>, <<"anthropic", "openai">>}

InitOrder ==
    /\ InitBreakerPart /\ InitCallers /\ InitBatchQuiet
    /\ providers \in OrderRegistrations
    /\ orders = <<>>
    /\ enable_local_fallback = TRUE
    /\ fallback_strategy \in OrderStrategies
    /\ rrIndex = 0
    /\ success_rates = [p \in Providers |-> [success |-> 0, failure |-> 0]]
    /\ latency_history = [p \in Providers |-> <<>>]
    /\ ledger = <<>>
    /\ started = 0
    /\ req = [r \in Requests |-> IdleRequest]
    /\ lastComplete = NoComplete

\* a call of complete or complete_stream, up to the return of
\* _get_provider_order
OrderCall(model, pref) ==
    /\ Len(orders) < MaxCalls
    /\ \E o \in ProviderOrders(model, pref) :
          /\ rrIndex' = o.rr
          /\ orders' = Append(orders, [model |-> model, pref |-> pref, order |-> o.order])
    /\ lastOp' = [NoOp EXCEPT !.op = "order"]
    /\ UNCHANGED <<now, cbVars, callVars, providers, fallback_strategy, enable_local_fallback,
                   success_rates,
                   latency_history, ledger, started, req, lastComplete, batchVars>>

NextOrder == \E pref \in OrderPreferences : OrderCall("none", pref)

SpecOrder == InitOrder /\ [][NextOrder]_vars

(***************************************************************************)
(* AIManager._get_provider_order under least_cost                          *)
(***************************************************************************)
\* the registrations, requested models and preference lists of these calls
CostRegistrations == {<<"openai", "anthropic", "local">>, <<"local", "anthropic", "openai">>,
                      <<"anthropic", "openai">>}

CostModels == {"none", "gpt-4o", "gpt-3.5-turbo", "claude-3-haiku", "llama-3-8b"}

CostPreferences == {<<>>, <<"anthropic", "local", "openai">>}

InitCost ==
    /\ InitBreakerPart /\ InitCallers /\ InitBatchQuiet
    /\ providers \in CostRegistrations
    /\ orders = <<>>
    /\ enable_local_fallback = TRUE
    /\ fallback_strategy = "least_cost"
    /\ rrIndex = 0
    /\ success_rates = [p \in Providers |-> [success |-> 0, failure |-> 0]]
    /\ latency_history = [p \in Providers |-> <<>>]
    /\ ledger = <<>>
    /\ started = 0
    /\ req = [r \in Requests |-> IdleRequest]
    /\ lastComplete = NoComplete

NextCost == \E model \in CostModels, pref \in CostPreferences : OrderCall(model, pref)

SpecCost == InitCost /\ [][NextCost]_vars

(***************************************************************************)
(* BatchProcessor: submission, the processing loop and batch execution     *)
(***************************************************************************)
Min(a, b) == IF a <= b THEN a ELSE b

RECURSIVE SumLen(_)
SumLen(seqs) == IF seqs = <<>> THEN 0 ELSE Len(Head(seqs)) + SumLen(Tail(seqs))

RECURSIVE QueuedCount(_)
QueuedCount(qs) ==
    IF qs = <<>> THEN 0
    ELSE SumLen([j \in 1..Len(Head(qs).pqs) |-> Head(qs).pqs[j].queue]) + QueuedCount(Tail(qs))

RECURSIVE TaskCount(_)
TaskCount(ts) ==
    IF ts = {} THEN 0
    ELSE LET t == CHOOSE t \in ts : TRUE IN Len(t.reqs) + TaskCount(ts \ {t})

\* the requests that were submitted and whose batch has not finished
Pending == QueuedCount(queues) + TaskCount(tasks)

\* submit_request, lines 162-165: queues[request_type][priority].append(request)
Enqueue(qs, r) ==
    IF \E k \in 1..Len(qs) : qs[k].type = r.type
    THEN LET k == CHOOSE k \in 1..Len(qs) : qs[k].type = r.type
             pqs == qs[k].pqs
         IN IF \E j \in 1..Len(pqs) : pqs[j].priority = r.priority
            THEN LET j == CHOOSE j \in 1..Len(pqs) : pqs[j].priority = r.priority
                 IN [qs EXCEPT ![k].pqs[j].queue = Append(@, r)]
            ELSE [qs EXCEPT ![k].pqs = Append(@, [priority |-> r.priority, queue |-> <<r>>])]
    ELSE Append(qs, [type |-> r.type, pqs |-> <<[priority |-> r.priority, queue |-> <<r>>]>>])

\* _should_create_batch, lines 258-285: decision_score, in units of
\* 1 / HybridScale so that the weights 0.3, 0.3, 0.3 and the two quotients are
\* whole numbers.  The requests carry no deadline (BatchRequest.deadline is
\* None), so urgency_factor is 0.  For a max_wait_time of 1 or 2 the comparison
\* with 1.0 gives the same answer in double precision as in exact arithmetic.
HybridScale == 10 * max_batch_size * MaxWaitTime

HybridScore(prio, batch_size, wait_time) ==
    LET priority_factor == 3 * prio * PriorityBoostFactor * max_batch_size * MaxWaitTime
        size_factor == 3 * Min(batch_size, max_batch_size) * MaxWaitTime
        time_factor == 3 * Min(wait_time, MaxWaitTime) * max_batch_size
        urgency_factor == 0
    IN priority_factor + size_factor + time_factor + urgency_factor

\* _should_create_batch
ShouldCreateBatch(prio, queue, nActive) ==
    IF queue = <<>> THEN FALSE
    ELSE IF nActive >= MaxConcurrentBatches THEN FALSE
    ELSE CASE strategy = "immediate" -> Len(queue) > 0
           [] strategy = "size_based" -> Len(queue) >= max_batch_size
           [] strategy = "time_based" -> now - queue[1].created_at >= MaxWaitTime
           [] strategy = "hybrid" -> HybridScore(prio, Len(queue), now - queue[1].created_at) >= HybridScale
           [] OTHER -> FALSE

\* variant of _extract_batch_requests that copies the requests and pops nothing
ExtractBatchRequests_PopsNothing(queue) ==
    [batch |-> SubSeq(queue, 1, Min(Len(queue), max_batch_size)), rest |-> queue]

\* variant of _extract_batch_requests that pops from the right end of the deque
ExtractBatchRequests_PopsRight(queue) ==
    LET n == Min(Len(queue), max_batch_size)
    IN [batch |-> SubSeq(queue, Len(queue) - n + 1, Len(queue)),
        rest |-> SubSeq(queue, 1, Len(queue) - n)]

\* _extract_batch_requests: popleft while the queue is not empty and the batch
\* is below max_batch_size
ExtractBatchRequests(queue) ==
    LET n == Min(Len(queue), max_batch_size)
    IN [batch |-> SubSeq(queue, 1, n), rest |-> SubSeq(queue, n + 1, Len(queue))]

\* _create_batch, line 311: the batch id
BatchId(type, reg) == [type |-> type, sec |-> now, n |-> Cardinality(reg)]

\* asyncio.create_task: a name for the new task, the least one not in use
NewTask(ts) == CHOOSE n \in 1..MaxPending :
                   /\ \A t \in ts : t.tid # n
                   /\ \A m \in 1..(n - 1) : \E t \in ts : t.tid = m

\* _check_and_create_batches: the loop over queues[k].pqs[j] from position (k, j)
\* on, with _extract_batch_requests and _create_batch for every admitted queue
RECURSIVE CheckQueues(_, _, _)
CheckQueues(st, k, j) ==
    IF k > Len(st.queues) THEN st
    ELSE IF j > Len(st.queues[k].pqs) THEN CheckQueues(st, k + 1, 1)
    ELSE LET pq == st.queues[k].pqs[j]
             type == st.queues[k].type
         IN IF ShouldCreateBatch(pq.priority, pq.queue, Cardinality(st.reg))
            THEN LET ex == ExtractBatchRequests(pq.queue)
                     key == BatchId(type, st.reg)
                     task == [tid |-> NewTask(st.tasks), type |-> type, reqs |-> ex.batch]
                 IN CheckQueues(
                        [queues |-> [st.queues EXCEPT ![k].pqs[j].queue = ex.rest],
                         reg |-> {e \in st.reg : e.key # key}
                                   \cup {[key |-> key, tid |-> task.tid, done |-> FALSE]},
                         tasks |-> st.tasks \cup {task}],
                        k, j + 1)
            ELSE CheckQueues(st, k, j + 1)

\* _cleanup_completed_batches: the registry without the entries whose task is done
CleanupCompleted(reg) == {e \in reg : ~e.done}

RECURSIVE SumTexts(_)
SumTexts(reqs) == IF reqs = <<>> THEN 0 ELSE Head(reqs).ntexts + SumTexts(Tail(reqs))

\* _process_batch, lines 333-370: the results list of a batch.  ok[n] tells
\* whether the Router call for the n-th completion request succeeds, embedOk
\* whether the merged embed call succeeds.  A result names the request it was
\* computed for by its position in the batch.
BatchResults(task, ok, embedOk) ==
    LET reqs == task.reqs
        result(n, success) == [id |-> reqs[n].id, for |-> n, success |-> success]
        all(success) == [n \in 1..Len(reqs) |-> result(n, success)]
    IN CASE task.type = "completion" -> [n \in 1..Len(reqs) |-> result(n, ok[n])]
         [] task.type = "embedding" ->
                IF \E n \in 1..Len(reqs) : reqs[n].ntexts = NoneTexts
                THEN all(FALSE)
                ELSE IF SumTexts(reqs) > 0 THEN all(embedOk) ELSE <<>>
         [] task.type = "generation" -> all(TRUE)
         [] OTHER -> all(FALSE)

\* _process_batch, lines 372-379: every result goes to the callback of the
\* first request of the batch that carries the id of the result.  calls[n] is
\* the list of calls made to the callback of the n-th request.
RECURSIVE Notify(_, _, _)
Notify(calls, results, reqs) ==
    IF results = <<>> THEN calls
    ELSE LET r == Head(results)
             M == {n \in 1..Len(reqs) : reqs[n].id = r.id}
         IN IF M = {}
            THEN Notify(calls, Tail(results), reqs)
            ELSE LET target == CHOOSE n \in M : \A m \in M : n <= m
                 IN Notify([calls EXCEPT ![target] = Append(@, [for |-> r.for, success |-> r.success])],
                           Tail(results), reqs)

\* the processor right after its construction at time t0
InitProcessor(t0) ==
    /\ now = t0
    /\ cb = [b \in Providers |-> NewBreaker]
    /\ gLastFail = [b \in Providers |-> NoTime]
    /\ gConsec = [b \in Providers |-> 0]
    /\ lastOp = NoOp
    /\ InitCallers /\ InitRouterQuiet
    /\ running = FALSE
    /\ loops = 0
    /\ stopping = FALSE
    /\ queues = <<>>
    /\ lastBatch = NoBatch
    /\ tasks = {}
    /\ active_batches = {}

\* the processor is constructed MaxWaitTime units before the end of the
\* modelled time
InitBatch ==
    /\ InitProcessor(MaxTime - MaxWaitTime)
    /\ strategy \in SingleRuleStrategies
    /\ max_batch_size = MaxBatchSize
    /\ workload \in Workloads

\* start
Start ==
    /\ ~running
    /\ ~stopping
    /\ running' = TRUE
    /\ loops' = loops + 1
    /\ lastBatch' = NoBatch
    /\ lastOp' = [NoOp EXCEPT !.op = "start"]
    /\ UNCHANGED <<now, cbVars, callVars, routerVars, stopping, strategy, max_batch_size, workload, queues,
                   tasks, active_batches>>

\* start on a processor that is running: lines 120-121, it returns at once
StartWhileRunning ==
    /\ running
    /\ lastBatch' = NoBatch
    /\ lastOp' = [NoOp EXCEPT !.op = "start_again"]
    /\ UNCHANGED <<now, cbVars, callVars, routerVars, running, loops, stopping, strategy,
                   max_batch_size, workload, queues, tasks, active_batches>>

\* the number of requests the clients keep pending: a client that sends
\* requests of one kind only keeps MaxPending, the others one batch
PendingCap == IF Cardinality(workload) = 1 THEN MaxPending ELSE MaxBatchSize

\* submit_request; the clients go on with the requests of 'rest'
Submit(shape, rest) ==
    /\ queues' = Enqueue(queues, [id |-> shape.id, type |-> shape.type,
                                  priority |-> shape.priority, ntexts |-> shape.ntexts,
                                  created_at |-> now, timed_out |-> FALSE])
    /\ workload' = rest
    /\ lastBatch' = NoBatch
    /\ lastOp' = [NoOp EXCEPT !.op = "submit"]
    /\ UNCHANGED <<now, cbVars, callVars, routerVars, running, loops, stopping, strategy, max_batch_size,
                   tasks, active_batches>>

\* submit_request by clients that repeat the requests of their workload
SubmitRequest(shape) ==
    /\ Pending < PendingCap
    /\ Submit(shape, workload)

\* one iteration of _processing_loop: _check_and_create_batches, then
\* _cleanup_completed_batches
SchedulerTick ==
    /\ running
    /\ LET st == CheckQueues([queues |-> queues, reg |-> active_batches, tasks |-> tasks], 1, 1)
       IN /\ queues' = st.queues
          /\ tasks' = st.tasks
          /\ active_batches' = CleanupCompleted(st.reg)
          /\ lastOp' = [NoOp EXCEPT !.op = "loop",
                                    !.outcome = IF st.tasks = tasks THEN "none" ELSE "admitted"]
    /\ lastBatch' = NoBatch
    /\ UNCHANGED <<now, cbVars, callVars, routerVars, running, loops, stopping, strategy, max_batch_size, workload>>

\* the task of a batch runs _process_batch to its end
BatchFinishes(t, ok, embedOk) ==
    /\ t \in tasks
    /\ lastBatch' = [type |-> t.type, reqs |-> t.reqs,
                     calls |-> Notify([n \in 1..Len(t.reqs) |-> <<>>],
                                      BatchResults(t, ok, embedOk), t.reqs)]
    /\ tasks' = tasks \ {t}
    /\ active_batches' = {IF e.tid = t.tid /\ ~e.done
                          THEN [e EXCEPT !.done = TRUE, !.tid = 0] ELSE e : e \in active_batches}
    /\ lastOp' = [NoOp EXCEPT !.op = "batch_end"]
    /\ UNCHANGED <<now, cbVars, callVars, routerVars, running, loops, stopping, strategy, max_batch_size, workload,
                   queues>>

\* stop, lines 127-137: _running is cleared and the processing loop, which is
\* suspended in its sleep, is cancelled; stop then waits for the tasks that
\* active_batches holds.  The loop being gone, active_batches keeps its
\* entries until stop returns (start is not called while stop is pending).
StopBegin ==
    /\ running
    /\ running' = FALSE
    /\ loops' = loops - 1
    /\ stopping' = TRUE
    /\ lastBatch' = NoBatch
    /\ lastOp' = [NoOp EXCEPT !.op = "stop"]
    /\ UNCHANGED <<now, cbVars, callVars, routerVars, strategy, max_batch_size, workload, queues, tasks,
                   active_batches>>

\* stop, lines 139-145: gather returns when every task of active_batches is done
StopReturns ==
    /\ stopping
    /\ \A e \in active_batches : e.done
    /\ stopping' = FALSE
    /\ lastBatch' = NoBatch
    /\ lastOp' = [NoOp EXCEPT !.op = "stop_return"]
    /\ UNCHANGED <<now, cbVars, callVars, routerVars, running, loops, strategy, max_batch_size, workload, queues,
                   tasks, active_batches>>

\* submit_request, lines 175-181: wait_for gives up on the future of a queued
\* request WaitCeiling after its submission
QueuedWaiterTimesOut(k, j, n) ==
    /\ k \in 1..Len(queues)
    /\ j \in 1..Len(queues[k].pqs)
    /\ n \in 1..Len(queues[k].pqs[j].queue)
    /\ ~queues[k].pqs[j].queue[n].timed_out
    /\ now - queues[k].pqs[j].queue[n].created_at >= WaitCeiling
    /\ queues' = [queues EXCEPT ![k].pqs[j].queue[n].timed_out = TRUE]
    /\ lastBatch' = NoBatch
    /\ lastOp' = [NoOp EXCEPT !.op = "timeout"]
    /\ UNCHANGED <<now, cbVars, callVars, routerVars, running, loops, stopping, strategy, max_batch_size, workload,
                   tasks, active_batches>>

\* the same for a request of an admitted batch: the task of the batch goes on
AdmittedWaiterTimesOut(t, n) ==
    /\ t \in tasks
    /\ n \in 1..Len(t.reqs)
    /\ ~t.reqs[n].timed_out
    /\ now - t.reqs[n].created_at >= WaitCeiling
    /\ tasks' = (tasks \ {t}) \cup {[t EXCEPT !.reqs[n].timed_out = TRUE]}
    /\ lastBatch' = NoBatch
    /\ lastOp' = [NoOp EXCEPT !.op = "timeout"]
    /\ UNCHANGED <<now, cbVars, callVars, routerVars, running, loops, stopping, strategy, max_batch_size, workload,
                   queues, active_batches>>

\* the outcomes of the backend calls a batch makes
CompletionOutcomes(t) ==
    IF t.type = "completion" THEN [1..Len(t.reqs) -> BOOLEAN]
    ELSE {[n \in 1..Len(t.reqs) |-> TRUE]}

EmbedOutcomes(t) == IF t.type = "embedding" THEN BOOLEAN ELSE {TRUE}

NextBatch ==
    \/ Tick
    \/ Start
    \/ \E shape \in workload : SubmitRequest(shape)
    \/ SchedulerTick
    \/ \E t \in tasks : \E ok \in CompletionOutcomes(t), embedOk \in EmbedOutcomes(t) :
          BatchFinishes(t, ok, embedOk)

SpecBatch == InitBatch /\ [][NextBatch]_vars

\* the processor with the hybrid strategy and the default max_batch_size
InitHybrid ==
    /\ InitProcessor(MaxTime - MaxWaitTime)
    /\ strategy = "hybrid"
    /\ max_batch_size = DefaultMaxBatchSize
    /\ workload \in HybridWorkloads

SpecHybrid == InitHybrid /\ [][NextBatch]_vars

\* the same processor with time passing, start called, the processing loop
\* iterating (while self._running, with a sleep of 0.1 s) and every batch
\* task running to its end; the clients are free to stop submitting
FairHybrid ==
    /\ WF_vars(Tick)
    /\ WF_vars(Start)
    /\ WF_vars(SchedulerTick)
    /\ WF_vars(\E t \in tasks : \E ok \in CompletionOutcomes(t), embedOk \in EmbedOutcomes(t) :
                   BatchFinishes(t, ok, embedOk))

SpecHybridLive == SpecHybrid /\ FairHybrid

\* the end-to-end scenario: hybrid strategy, max_batch_size 10, a wait bound of
\* MaxWaitTime, three completion requests of priority NORMAL, each submitted
\* once and at any moment, and no other request
ScenarioRequests ==
    {Shape("a", "completion", 2, 0), Shape("b", "completion", 2, 0),
     Shape("c", "completion", 2, 0)}

InitScenario ==
    /\ InitProcessor(MaxTime - MaxWaitTime)
    /\ strategy = "hybrid"
    /\ max_batch_size = DefaultMaxBatchSize
    /\ workload = ScenarioRequests

NextScenario ==
    \/ Tick
    \/ Start
    \/ \E shape \in workload : Submit(shape, workload \ {shape})
    \/ SchedulerTick
    \/ \E t \in tasks : \E ok \in CompletionOutcomes(t), embedOk \in EmbedOutcomes(t) :
          BatchFinishes(t, ok, embedOk)

SpecScenario == InitScenario /\ [][NextScenario]_vars

(***************************************************************************)
(* BatchProcessor._process_embedding_batch on the texts of the requests    *)
(***************************************************************************)
Texts == {"s", "t"}

RECURSIVE SeqsUpTo(_, _)
SeqsUpTo(S, n) ==
    IF n = 0 THEN {<<>>}
    ELSE LET shorter == SeqsUpTo(S, n - 1)
         IN shorter \cup {Append(q, x) : q \in {r \in shorter : Len(r) = n - 1}, x \in S}

\* the value of data['texts']: a bare string or a list of at most MaxTexts strings
TextData ==
    {[kind |-> "str", val |-> <<x>>] : x \in Texts}
        \cup {[kind |-> "list", val |-> l] : l \in SeqsUpTo(Texts, MaxTexts)}

\* the batches of at most MaxItems embedding requests; the n-th request has id n
EmbeddingBatches ==
    {b \in SeqsUpTo(TextData, MaxItems) : b # <<>>}

\* lines 413-415: req_texts, a bare string becoming a list of one text
ReqTexts(data) == data.val

\* lines 412-426: texts and request_mapping after the first n requests
RECURSIVE Combine(_, _)
Combine(reqs, n) ==
    IF n = 0 THEN [texts |-> <<>>, request_mapping |-> <<>>]
    ELSE LET before == Combine(reqs, n - 1)
             req_texts == ReqTexts(reqs[n])
             start_idx == Len(before.texts)
             texts == before.texts \o req_texts
             end_idx == Len(texts)
         IN [texts |-> texts,
             request_mapping |-> Append(before.request_mapping,
                                        [request |-> n, start_idx |-> start_idx,
                                         end_idx |-> end_idx, count |-> Len(req_texts)])]

\* the vector a backend computes for a text
Vector(text) == <<"vector", text>>

\* a backend that returns one vector per text in input order
Embeddings(texts) == [n \in 1..Len(texts) |-> Vector(texts[n])]

\* _process_embedding_batch: the embed calls it makes and the results it
\* returns; ok tells whether the embed call succeeds.  The Python slice
\* embeddings[start_idx:end_idx] is SubSeq(embeddings, start_idx + 1, end_idx).
ProcessEmbeddingBatch(reqs, ok) ==
    LET c == Combine(reqs, Len(reqs))
    IN IF c.texts = <<>>
       THEN [embed_calls |-> <<>>, results |-> <<>>]
       ELSE [embed_calls |-> <<c.texts>>,
             results |->
                 [n \in 1..Len(reqs) |->
                     LET mapping == c.request_mapping[n]
                     IN IF ok
                        THEN [request_id |-> mapping.request, success |-> TRUE,
                              embeddings |-> SubSeq(Embeddings(c.texts),
                                                    mapping.start_idx + 1, mapping.end_idx)]
                        ELSE [request_id |-> mapping.request, success |-> FALSE,
                              embeddings |-> <<>>]]]

InitEmbedBatch ==
    /\ InitProcessor(0)
    /\ strategy = "immediate"
    /\ max_batch_size = MaxItems
    /\ workload = {}

\* _create_batch for a batch of embedding requests, the first batch of the
\* processor
EmbedBatchCreated(b) ==
    /\ lastOp = NoOp
    /\ tasks = {}
    /\ tasks' = {[tid |-> 1, type |-> "embedding", reqs |-> b]}
    /\ lastBatch' = NoBatch
    /\ lastOp' = [NoOp EXCEPT !.op = "create_batch"]
    /\ UNCHANGED <<now, cbVars, callVars, routerVars, running, loops, stopping, strategy, max_batch_size,
                   workload, queues, active_batches>>

\* the task of the batch runs _process_embedding_batch
EmbedBatchRuns(t, ok) ==
    /\ t \in tasks
    /\ LET out == ProcessEmbeddingBatch(t.reqs, ok)
       IN lastBatch' = [type |-> t.type, reqs |-> t.reqs, calls |-> <<>>, ok |-> ok,
                        embed_calls |-> out.embed_calls, results |-> out.results]
    /\ tasks' = tasks \ {t}
    /\ lastOp' = [NoOp EXCEPT !.op = "embed_batch"]
    /\ UNCHANGED <<now, cbVars, callVars, routerVars, running, loops, stopping, strategy, max_batch_size,
                   workload, queues, active_batches>>

NextEmbedBatch ==
    \/ \E b \in EmbeddingBatches : EmbedBatchCreated(b)
    \/ \E t \in tasks, ok \in BOOLEAN : EmbedBatchRuns(t, ok)

SpecEmbedBatch == InitEmbedBatch /\ [][NextEmbedBatch]_vars

\* the processor with calls of stop, for the clients that send no embedding request
InitStop == InitBatch /\ \A shape \in workload : shape.type # "embedding"

NextStop == NextBatch \/ StopBegin \/ StopReturns

SpecStop == InitStop /\ [][NextStop]_vars

\* start, stop and start again, with start also called on a running processor
NextRestart == NextStop \/ StartWhileRunning

SpecRestart == InitStop /\ [][NextRestart]_vars

\* the processor with submitters that wait for their result, constructed
\* WaitCeiling units before the end of the modelled time
InitWait ==
    /\ InitProcessor(MaxTime - WaitCeiling)
    /\ strategy \in SingleRuleStrategies
    /\ max_batch_size = MaxBatchSize
    /\ workload \in Workloads

NextWait ==
    \/ NextBatch
    \/ \E k \in 1..MaxPending, j \in 1..MaxPending, n \in 1..MaxPending :
          QueuedWaiterTimesOut(k, j, n)
    \/ \E t \in tasks, n \in 1..MaxBatchSize : AdmittedWaiterTimesOut(t, n)

SpecWait == InitWait /\ [][NextWait]_vars

(***************************************************************************)
(* Properties of the circuit breaker                                       *)
(***************************************************************************)
WithinRecovery(b) ==
    gLastFail[b] # NoTime /\ now - gLastFail[b] < RecoveryTimeout

RecoveryElapsed(b) ==
    gLastFail[b] # NoTime /\ now - gLastFail[b] >= RecoveryTimeout

\* C1: a Closed breaker stays Closed below FailureThreshold consecutive
\* expected failures, becomes Open at the FailureThreshold-th and stores the
\* time of that failure; a recorded success sets the failure counter to 0.
C1_ThresholdOpens ==
    /\ [](\A b \in Providers : cb[b].state = "closed" => gConsec[b] < FailureThreshold)
    /\ [][\A b \in Providers :
            /\ (cb[b].state = "closed" /\ gConsec'[b] = gConsec[b] + 1) =>
                  IF gConsec'[b] >= FailureThreshold
                  THEN cb'[b].state = "open" /\ cb'[b].last_failure_time = now
                  ELSE cb'[b].state = "closed"
            /\ (lastOp'.op = "end" /\ lastOp'.outcome = "ok" /\ lastOp'.b = b) =>
                  cb'[b].failure_count = 0]_vars

\* C1 witness: the FailureThreshold-th consecutive failure has just opened a Closed breaker
C1_Witness ==
    \E b \in Providers :
        /\ lastOp.op = "end" /\ lastOp.outcome = "failed" /\ lastOp.b = b
        /\ lastOp.from = "closed"
        /\ gConsec[b] = FailureThreshold
        /\ cb[b].state = "open" /\ cb[b].last_failure_time = now

\* C2: while a breaker is Open and less than RecoveryTimeout has passed since
\* its last failure, a call() or call_async_generator() is rejected: no call
\* becomes in flight and the breaker is left unchanged.
C2_OpenRejects ==
    [][\A b \in DirectBreakers :
          (cb[b].state = "open" /\ WithinRecovery(b)) =>
             /\ \A c \in Callers : callPc'[c] = "inflight" => callPc[c] = "inflight"
             /\ (lastOp'.op = "begin" /\ lastOp'.b = b) =>
                   /\ lastOp'.outcome = "rejected"
                   /\ cb'[b] = cb[b]
                   /\ callPc' = callPc]_vars

\* C2 witness: a streaming call was rejected by an Open breaker within the recovery window
C2_Witness ==
    \E b \in DirectBreakers :
        /\ lastOp.op = "begin" /\ lastOp.b = b /\ lastOp.kind = "gen"
        /\ lastOp.outcome = "rejected"
        /\ cb[b].state = "open" /\ WithinRecovery(b)

\* C7: a call that arrives at an Open breaker once RecoveryTimeout has passed
\* since the most recent recorded failure is admitted as a probe, the breaker
\* becoming HalfOpen.
C7_ProbeAfterTimeout ==
    [][\A b \in DirectBreakers :
          (cb[b].state = "open" /\ RecoveryElapsed(b) /\ lastOp'.op = "begin" /\ lastOp'.b = b) =>
             /\ lastOp'.outcome = "admitted"
             /\ cb'[b].state = "half_open"]_vars

\* C8: while a breaker is HalfOpen at most one call admitted in HalfOpen is in flight.
C8_SingleProbe ==
    \A b \in DirectBreakers :
        cb[b].state = "half_open" =>
            Cardinality({c \in Callers : callPc[c] = "inflight" /\ callAdm[c] = "half_open"}) <= 1

\* C9: a call that succeeds while the breaker is HalfOpen closes it with a zero
\* failure counter; a call that fails there opens it and stores the time of
\* that failure; a probe is only admitted a full RecoveryTimeout after the most
\* recent failure.
C9_HalfOpenOutcome ==
    \A b \in Providers :
        /\ (lastOp.op = "end" /\ lastOp.b = b /\ lastOp.from = "half_open" /\ lastOp.outcome = "ok") =>
              cb[b].state = "closed" /\ cb[b].failure_count = 0
        /\ (lastOp.op = "end" /\ lastOp.b = b /\ lastOp.from = "half_open" /\ lastOp.outcome = "failed") =>
              cb[b].state = "open" /\ cb[b].last_failure_time = now
        /\ (lastOp.op = "begin" /\ lastOp.b = b /\ lastOp.probe) =>
              RecoveryElapsed(b)

\* C9 witness: the probe failed in HalfOpen with the counter below the threshold
C9_Witness ==
    \E b \in Providers :
        /\ lastOp.op = "end" /\ lastOp.b = b /\ lastOp.from = "half_open"
        /\ lastOp.outcome = "failed" /\ lastOp.probe
        /\ cb[b].failure_count < FailureThreshold
        /\ cb[b].state = "open"

\* C10: apart from reset(), a breaker becomes Closed only from HalfOpen and only
\* by the successful completion of the call admitted as the probe.
C10_ClosedOnlyByProbe ==
    [][\A b \in Providers :
          (cb[b].state # "closed" /\ cb'[b].state = "closed") =>
             \/ lastOp'.op = "reset"
             \/ /\ cb[b].state = "half_open"
                /\ lastOp'.op = "end" /\ lastOp'.outcome = "ok" /\ lastOp'.probe]_vars

\* C18: when a wrapped call, single-result or streaming, ends with an error
\* outside the expected category, the state, the failure counter and the
\* last-failure time of the breaker are what they were before, whatever the
\* state of the breaker.
C18_UnexpectedLeavesBreaker ==
    [][(lastOp'.op = "end" /\ lastOp'.outcome = "unexpected") =>
          /\ cb'[lastOp'.b] = cb[lastOp'.b]
          /\ lastOp'.from = cb[lastOp'.b].state]_vars

\* C18 witness: a streaming call ended with an unexpected error while the
\* breaker was HalfOpen with failures on its counter
C18_Witness ==
    /\ lastOp.op = "end"
    /\ lastOp.outcome = "unexpected"
    /\ lastOp.kind = "gen"
    /\ lastOp.from = "half_open"
    /\ cb[lastOp.b].state = "half_open"
    /\ cb[lastOp.b].failure_count > 0

\* C19: a streaming call changes neither the counter nor the state of the
\* breaker while its fragments are delivered; the end of the stream records one
\* success, an expected error raised by the stream records one failure.
C19_StreamRecordedAtEnd ==
    [][/\ lastOp'.op = "fragment" => cb' = cb /\ gConsec' = gConsec /\ gLastFail' = gLastFail
       /\ (lastOp'.op = "end" /\ lastOp'.kind = "gen" /\ lastOp'.outcome = "ok") =>
             /\ cb'[lastOp'.b] = OnSuccess(cb[lastOp'.b])
             /\ cb'[lastOp'.b].failure_count = 0
             /\ gConsec'[lastOp'.b] = 0
       /\ (lastOp'.op = "end" /\ lastOp'.kind = "gen" /\ lastOp'.outcome = "failed") =>
             /\ cb'[lastOp'.b].failure_count = cb[lastOp'.b].failure_count + 1
             /\ cb'[lastOp'.b].last_failure_time = now
             /\ gConsec'[lastOp'.b] = gConsec[lastOp'.b] + 1]_vars

\* C19 witness: a fragment was delivered by a stream admitted as the probe of a
\* breaker that still holds its failures
C19_Witness ==
    /\ lastOp.op = "fragment"
    /\ lastOp.probe
    /\ cb[lastOp.b].state = "half_open"
    /\ cb[lastOp.b].failure_count >= FailureThreshold

\* C37: in every reachable state, a breaker that is Closed has a failure
\* counter below FailureThreshold.
C37_ClosedBelowThreshold ==
    \A b \in Providers : cb[b].state = "closed" => cb[b].failure_count < FailureThreshold

\* C37 witness: a breaker that was Open and has been closed again
\* has recorded failures up to one below the threshold, another call being in flight
C37_Witness ==
    \E b \in DirectBreakers :
        /\ cb[b].state = "closed"
        /\ cb[b].failure_count = FailureThreshold - 1
        /\ lastOp.op = "end" /\ lastOp.outcome = "failed" /\ lastOp.b = b
        /\ \E c \in Callers : callPc[c] = "inflight" /\ callAdm[c] = "half_open"

(***************************************************************************)
(* Properties of the provider router                                       *)
(***************************************************************************)
\* backend p supports the requested model or a mapped equivalent
Mappable(p, model) ==
    model = "none" \/ model \in SupportedModels(p) \/ MapModel(model, p) # "none"

\* the candidate of log entry e was passed over: breaker Open, no mapping, or its call failed
PassedOver(e, model) ==
    \/ e.outcome = "skipped_open" /\ e.state = "open"
    \/ e.outcome = "skipped_nomap" /\ ~Mappable(e.p, model)
    \/ e.outcome \in {"failed", "rejected"}

\* the backend of the last call failure of a log, "none" when no call failed
LastFailed(log) ==
    LET F == {i \in 1..Len(log) : log[i].outcome \in {"failed", "rejected"}} IN
    IF F = {} THEN "none" ELSE log[CHOOSE i \in F : \A j \in F : j <= i].p

\* C3: a complete() that succeeds returns the response of the first candidate,
\* in the computed order, that was not skipped and whose call succeeded: the
\* earlier candidates were skipped (breaker Open, no mapping) or failed, no
\* later candidate was touched, and the serving breaker shows no failure.  A
\* complete() fails only when no candidate was usable.
C3_FirstSuccessServes ==
    LET lc == lastComplete
        log == lc.log
        n == Len(log)
    IN /\ lc.outcome = "success" =>
             /\ n >= 1 /\ n <= Len(lc.order)
             /\ \A i \in 1..n : log[i].p = lc.order[i]
             /\ log[n].outcome = "ok"
             /\ lc.server = log[n].p
             /\ lc.response = [backend |-> lc.server, model |-> ModelToUse(lc.server, lc.model)]
             /\ Mappable(lc.server, lc.model)
             /\ \A i \in 1..(n - 1) :
                   \/ log[i].outcome = "skipped_open" /\ log[i].state = "open"
                   \/ log[i].outcome = "skipped_nomap" /\ ~Mappable(log[i].p, lc.model)
                   \/ log[i].outcome = "failed"
             /\ cb[lc.server].failure_count = 0
             /\ cb[lc.server].last_failure_time = NoTime
       /\ lc.outcome = "exhausted" =>
             \A i \in 1..Len(lc.order) :
                 /\ i <= n
                 /\ \/ log[i].state = "open"
                    \/ ~Mappable(log[i].p, lc.model)
                    \/ log[i].outcome = "failed"

\* C3 witness: the first candidate failed and the second one served the call
C3_Witness ==
    /\ lastComplete.outcome = "success"
    /\ Len(lastComplete.log) = 2
    /\ lastComplete.log[1].outcome = "failed"
    /\ lastComplete.server = lastComplete.order[2]

\* C4: complete() raises the aggregate error exactly when every candidate of
\* the filtered list was passed over (breaker Open, no model mapping, or call
\* failed), and the error names the last call failure.
C4_ExhaustedIff ==
    LET lc == lastComplete
        log == lc.log
    IN lc.outcome # "none" =>
          /\ (lc.outcome = "exhausted") <=>
                /\ Len(log) = Len(lc.order)
                /\ \A i \in 1..Len(log) : log[i].p = lc.order[i] /\ PassedOver(log[i], lc.model)
          /\ lc.outcome = "exhausted" => lc.last_error = LastFailed(log)

\* C4 witness: one candidate was skipped for its Open breaker, the other one failed
C4_Witness ==
    /\ lastComplete.outcome = "exhausted"
    /\ Len(lastComplete.log) = 2
    /\ lastComplete.log[1].outcome = "skipped_open"
    /\ lastComplete.log[2].outcome = "failed"
    /\ lastComplete.last_error = lastComplete.log[2].p

\* the two-backend case of C16: the primary was skipped for its Open breaker
\* and the secondary, not Open and able to serve the model, was invoked; when
\* its call succeeded, complete() returned its response
SecondaryServes(lc) ==
    (/\ lc.outcome # "none"
     /\ Len(lc.order) = 2
     /\ lc.order[1] # lc.order[2]
     /\ lc.log[1].outcome = "skipped_open"
     /\ Mappable(lc.order[2], lc.model)) =>
        /\ Len(lc.log) = 2
        /\ lc.log[2].p = lc.order[2]
        /\ \/ lc.log[2].outcome = "skipped_open" /\ lc.log[2].state = "open"
           \/ lc.log[2].outcome = "failed" /\ lc.outcome = "exhausted"
           \/ /\ lc.log[2].outcome = "ok"
              /\ lc.outcome = "success"
              /\ lc.response = [backend |-> lc.order[2],
                                model |-> ModelToUse(lc.order[2], lc.model)]

\* C16: a candidate whose breaker is Open when the router examines it is
\* skipped: a backend is invoked only if its breaker was not Open, and a
\* failure tally is added only for the backend whose invoked call failed.
\* With two backends and the primary's breaker Open, the secondary is invoked
\* and its response is what complete() returns.
C16_OpenCandidateSkipped ==
    [][/\ \A p \in Providers :
             success_rates'[p].failure # success_rates[p].failure =>
                /\ success_rates'[p].failure = success_rates[p].failure + 1
                /\ lastOp'.op = "complete_end"
                /\ lastOp'.outcome = "failed"
                /\ lastOp'.b = p
       /\ \A r \in Requests :
             (req'[r].pc = "calling" /\ (req[r].pc # "calling" \/ req'[r].idx # req[r].idx)) =>
                LET p == req'[r].order[req'[r].idx]
                IN /\ lastOp'.b # p => cb[p].state # "open"
                   /\ \A i \in 1..Len(req'[r].log) :
                         req'[r].log[i].outcome = "skipped_open" =>
                            req'[r].log[i].state = "open" /\ req'[r].log[i].p # p
       /\ SecondaryServes(lastComplete')]_vars

\* C16 witness: the primary was skipped for its Open breaker without a failure
\* tally and the secondary served the call
C16_Witness ==
    /\ lastComplete.outcome = "success"
    /\ Len(lastComplete.order) = 2
    /\ lastComplete.log[1].outcome = "skipped_open"
    /\ success_rates[lastComplete.order[1]].failure = 0
    /\ lastComplete.server = lastComplete.order[2]
    /\ lastComplete.response.backend = lastComplete.order[2]

\* C17: every backend invocation of the router, by complete and by embed,
\* goes through the breaker of the backend: an invocation starts only at a
\* backend whose breaker is not Open, and when an invocation ends the breaker
\* has recorded its outcome.
C17_EveryCallThroughBreaker ==
    [][\A r \in Requests :
          /\ (/\ req'[r].pc \in {"calling", "embedding"}
              /\ req[r].pc # req'[r].pc \/ req[r].idx # req'[r].idx) =>
                LET p == req'[r].order[req'[r].idx]
                IN lastOp'.b # p => cb[p].state # "open"
          /\ (/\ req[r].pc \in {"calling", "embedding"}
              /\ req[r].pc # req'[r].pc \/ req[r].idx # req'[r].idx) =>
                LET p == req[r].order[req[r].idx]
                IN /\ lastOp'.b = p
                   /\ lastOp'.outcome = "ok" => cb'[p] = OnSuccess(cb[p])
                   /\ lastOp'.outcome = "failed" => cb'[p] = OnFailure(cb[p], now)]_vars

\* C25: the usage record that a successful complete call appends carries a
\* cost computed from the profile of the backend that served the call, for
\* the model that was sent to that backend.
C25_CostFromServingProfile ==
    [][(/\ lastOp'.op = "complete_end"
        /\ lastOp'.outcome = "ok"
        /\ Len(ledger') = Len(ledger) + 1) =>
           ledger'[Len(ledger')].cost =
               [backend |-> lastComplete'.server, model |-> lastComplete'.response.model]]_vars

\* C25 witness: a call that asked for a model of the first backend was served
\* by the second backend with a mapped model, and its usage was recorded
C25_Witness ==
    /\ lastOp.op = "complete_end"
    /\ lastComplete.outcome = "success"
    /\ lastComplete.server = providers[2]
    /\ lastComplete.model \in SupportedModels(providers[1])
    /\ lastComplete.response.model # lastComplete.model
    /\ Len(ledger) = started
    /\ ledger[Len(ledger)].provider = lastComplete.server
    /\ ledger[Len(ledger)].cost.model = lastComplete.response.model

\* C26: every successful return of complete or embed appends exactly one
\* usage record, attributed to the serving backend and the model sent to it;
\* every other step of the router appends nothing.
C26_OneRecordPerSuccess ==
    [][IF lastOp'.op \in {"complete_end", "embed_end"} /\ lastOp'.outcome = "ok"
       THEN /\ Len(ledger') = Len(ledger) + 1
            /\ SubSeq(ledger', 1, Len(ledger)) = ledger
            /\ ledger'[Len(ledger')].provider = lastOp'.b
            /\ \E r \in Requests : /\ req[r].pc \in {"calling", "embedding"}
                                   /\ req'[r].pc = "idle"
                                   /\ ledger'[Len(ledger')].model = req[r].used
       ELSE ledger' = ledger]_vars

\* the registered backends a preference list leaves as candidates
Candidates(pref) ==
    IF pref = <<>> THEN Range(providers) ELSE Range(pref) \cap Range(providers)

\* the candidates in registration order
InRegistrationOrder(cand) == SelectSeq(providers, LAMBDA q : q \in cand)

\* C27: under the sequential strategy the candidate order is the default
\* backend, when it is a candidate, followed by the other candidates in
\* registration order, whatever preference list selected the candidates.
C27_SequentialOrder ==
    fallback_strategy = "sequential" =>
        \A i \in 1..Len(orders) :
            LET cand == Candidates(orders[i].pref)
            IN orders[i].order =
                   (IF default_provider \in cand THEN <<default_provider>> ELSE <<>>)
                       \o InRegistrationOrder(cand \ {default_provider})

\* the calls i .. i + n - 1 were made with one preference list that leaves n
\* candidates
Window(i, n) ==
    /\ n >= 1
    /\ i + n - 1 <= Len(orders)
    /\ \A j \in i..(i + n - 1) :
          orders[j].pref = orders[i].pref /\ Len(orders[j].order) = n

\* C28: under round robin, over n consecutive calls with the same n
\* candidates every candidate is first exactly once, and in each call the
\* candidates behind the first keep the order they have in the candidate list.
C28_RoundRobinRotates ==
    fallback_strategy = "round_robin" =>
        \A i \in 1..Len(orders) : \A n \in 1..Len(providers) :
            Window(i, n) =>
                /\ {orders[j].order[1] : j \in i..(i + n - 1)} = Range(orders[i].order)
                /\ Cardinality(Range(orders[i].order)) = n
                /\ \A j \in i..(i + n - 1) :
                       Tail(orders[j].order) =
                           RemoveFirst(AvailableProviders(orders[j].pref), orders[j].order[1])

\* C28 witness: three consecutive calls over the three registered backends
C28_Witness ==
    /\ fallback_strategy = "round_robin"
    /\ Len(providers) = 3
    /\ \E i \in 2..Len(orders) : Window(i, 3) /\ orders[i].order[1] # providers[1]

\* the position of backend x in a list without repetitions
Position(seq, x) == CHOOSE k \in 1..Len(seq) : seq[k] = x

\* the model backend p would be sent for a requested model, priced: sorts last
\* without mapping or without profile, otherwise by the average of the two costs
PricedUse(p, model) ==
    LET m == ModelToUse(p, model) IN
    IF m = "none" \/ ModelInfo(p, m) = EmptyInfo
    THEN [last |-> TRUE, cost |-> 0]
    ELSE [last |-> FALSE, cost |-> (InputCostPer1k(p, m) + OutputCostPer1k(p, m)) \div 2]

\* x does not sort behind y
NotBehind(x, y) == y.last \/ (~x.last /\ x.cost <= y.cost)

\* C31: under least_cost with a requested model the order returned holds the
\* candidates once each, ascending by the average cost of the model each
\* backend would be sent (zero cost first, no mapping or no profile last), and
\* candidates of equal cost keep the order of the candidate list.
C31_LeastCostOrder ==
    fallback_strategy = "least_cost" =>
        \A i \in 1..Len(orders) :
            LET o == orders[i].order
                model == orders[i].model
                avail == AvailableProviders(orders[i].pref)
            IN model # "none" =>
                  /\ Len(o) = Len(avail)
                  /\ Range(o) = Range(avail)
                  /\ \A a, b \in 1..Len(o) :
                         a < b =>
                            /\ NotBehind(PricedUse(o[a], model), PricedUse(o[b], model))
                            /\ NotBehind(PricedUse(o[b], model), PricedUse(o[a], model))
                                   => Position(avail, o[a]) < Position(avail, o[b])

\* C31 witness: gpt-4o is asked for with openai, anthropic and local registered
\* in that order, and local (zero cost) comes first, openai second, anthropic
\* (claude-3-opus) last; and a call for llama-3-8b, which only local has,
\* leaves openai and anthropic behind it in their registration order
C31_Witness ==
    /\ fallback_strategy = "least_cost"
    /\ providers = <<"openai", "anthropic", "local">>
    /\ \E i, j \in 1..Len(orders) :
          /\ orders[i] = [model |-> "gpt-4o", pref |-> <<>>,
                          order |-> <<"local", "openai", "anthropic">>]
          /\ orders[j] = [model |-> "llama-3-8b", pref |-> <<>>,
                          order |-> <<"local", "openai", "anthropic">>]

\* C32: a complete() call that begins once RecoveryTimeout has elapsed since the
\* last failure of a backend whose breaker is Open does not skip that backend
\* for its Open breaker.
C32_RouterProbesAfterTimeout ==
    [][lastOp'.op = "complete_begin" =>
          LET log == IF lastComplete'.outcome = "exhausted" THEN lastComplete'.log
                     ELSE req'[CHOOSE q \in Requests :
                                   req[q].pc = "idle" /\ req'[q].pc = "calling"].log
          IN \A b \in Providers :
                 (cb[b].state = "open" /\ RecoveryElapsed(b)) =>
                     \A i \in 1..Len(log) :
                         ~(log[i].p = b /\ log[i].outcome = "skipped_open")]_vars

\* C34: the fragments a complete_stream call has yielded to its caller all come
\* from one backend invocation.
C34_FragmentsFromOneBackend ==
    \A r \in Requests : Cardinality(Range(req[r].yielded)) <= 1

\* the last n elements of a sequence, all of them when it is shorter
LastN(seq, n) ==
    IF Len(seq) <= n THEN seq
    ELSE [i \in 1..n |-> seq[Len(seq) - n + i]]

\* the step ends a complete or complete_stream call of backend p with the outcome
EndsWith(p, op, outcome) ==
    op.op \in {"complete_end", "stream_end"} /\ op.b = p /\ op.outcome = outcome

\* C38: the latency history of a backend never holds more than LatencyWindow
\* samples; a step in which the backend serves a call successfully appends the
\* latency of that call, drops the oldest samples beyond LatencyWindow and adds
\* one success tally; no other step changes the history or the success tally,
\* and the failure tally changes only in a step in which a call of the backend
\* failed.
C38_LatencyWindowOfSuccesses ==
    [][\A p \in Providers :
          /\ Len(latency_history'[p]) <= LatencyWindow
          /\ EndsWith(p, lastOp', "ok") =>
                 \E r \in Requests :
                     /\ req[r].pc \in {"calling", "streaming"} /\ req'[r].pc = "idle"
                     /\ req[r].order[req[r].idx] = p
                     /\ latency_history'[p] =
                            LastN(latency_history[p] \o <<now - req[r].start>>, LatencyWindow)
                     /\ success_rates'[p].success = success_rates[p].success + 1
          /\ ~EndsWith(p, lastOp', "ok") =>
                 /\ latency_history'[p] = latency_history[p]
                 /\ success_rates'[p].success = success_rates[p].success
          /\ success_rates'[p].failure # success_rates[p].failure =>
                 EndsWith(p, lastOp', "failed")]_vars

\* C38 witness: a backend whose history was full has served one more call,
\* two time units long: the oldest sample is gone and the new one is the last
C38_Witness ==
    \E p \in Providers :
        /\ EndsWith(p, lastOp, "ok")
        /\ success_rates[p].success = LatencyWindow + 1
        /\ Len(latency_history[p]) = LatencyWindow
        /\ latency_history[p][1] = 0
        /\ latency_history[p][LatencyWindow] = 2
        /\ success_rates[p].failure > 0

\* the backend that the embed call of request slot r is invoking in state st
EmbedInvoked(st) == st.order[st.idx]

C5_CallbackExactlyOnce ==
    lastOp.op = "batch_end" =>
        \A n \in 1..Len(lastBatch.reqs) : Len(lastBatch.calls[n]) = 1

\* C6: at every moment at most MaxConcurrentBatches admitted batches are
\* still executing.
C6_ConcurrencyLimit == Cardinality(tasks) <= MaxConcurrentBatches

\* the requests held in the queues, queue after queue
RECURSIVE ConcatPqs(_)
ConcatPqs(pqs) == IF pqs = <<>> THEN <<>> ELSE Head(pqs).queue \o ConcatPqs(Tail(pqs))

RECURSIVE ConcatQueues(_)
ConcatQueues(qs) ==
    IF qs = <<>> THEN <<>> ELSE ConcatPqs(Head(qs).pqs) \o ConcatQueues(Tail(qs))

\* the requests held in the admitted batches
RECURSIVE ConcatTasks(_)
ConcatTasks(ts) ==
    IF ts = {} THEN <<>>
    ELSE LET t == CHOOSE t \in ts : TRUE IN t.reqs \o ConcatTasks(ts \ {t})

RECURSIVE CountIn(_, _)
CountIn(seq, r) ==
    IF seq = <<>> THEN 0
    ELSE (IF Head(seq) = r THEN 1 ELSE 0) + CountIn(Tail(seq), r)

\* how many times request r is held, in the queues and in the admitted batches
Held(qs, ts, r) == CountIn(ConcatQueues(qs), r) + CountIn(ConcatTasks(ts), r)

\* C11: from submission until its batch finishes a request is held in exactly
\* one place, a queue or an admitted batch: a submission adds one queued
\* request, a loop iteration, start and stop neither lose nor duplicate a
\* request, the end of a batch removes exactly the requests of that batch, and
\* the request list of an admitted batch never changes.
C11_ExactlyOnePlace ==
    [][LET rs == Range(ConcatQueues(queues) \o ConcatTasks(tasks))
                   \cup Range(ConcatQueues(queues') \o ConcatTasks(tasks'))
       IN /\ lastOp'.op \in {"loop", "start", "stop", "stop_return", "tick"} =>
                \A r \in rs : Held(queues', tasks', r) = Held(queues, tasks, r)
          /\ lastOp'.op = "submit" =>
                /\ tasks' = tasks
                /\ \E r \in rs :
                      /\ CountIn(ConcatQueues(queues'), r) = CountIn(ConcatQueues(queues), r) + 1
                      /\ \A q \in rs \ {r} : Held(queues', tasks', q) = Held(queues, tasks, q)
          /\ lastOp'.op = "batch_end" =>
                /\ queues' = queues
                /\ \E t \in tasks : tasks' = tasks \ {t}
          /\ \A t \in tasks, u \in tasks' : t.tid = u.tid => u = t]_vars

\* a request is submitted while stop waits for an admitted batch, with an
\* earlier request still queued
C11_Witness ==
    /\ lastOp.op = "submit"
    /\ stopping
    /\ QueuedCount(queues) > 1
    /\ tasks # {}

\* C12: a batch admitted from a queue consists of the first
\* min(queue length, max_batch_size) requests of the queue in arrival order, and
\* the rest of the queue stays queued in its order.
C12_FrontOfQueue ==
    [][lastOp'.op = "loop" =>
          /\ Len(queues') = Len(queues)
          /\ \A k \in 1..Len(queues) :
                /\ queues'[k].type = queues[k].type
                /\ Len(queues'[k].pqs) = Len(queues[k].pqs)
                /\ \A j \in 1..Len(queues[k].pqs) :
                      LET q == queues[k].pqs[j].queue
                          rest == queues'[k].pqs[j].queue
                          n == Min(Len(q), max_batch_size)
                      IN rest # q =>
                            /\ rest = SubSeq(q, n + 1, Len(q))
                            /\ \E t \in tasks' \ tasks :
                                  t.type = queues[k].type /\ t.reqs = SubSeq(q, 1, n)
          /\ \A t \in tasks' \ tasks :
                \E k \in 1..Len(queues) : \E j \in 1..Len(queues[k].pqs) :
                   /\ t.type = queues[k].type
                   /\ t.reqs \o queues'[k].pqs[j].queue = queues[k].pqs[j].queue
                   /\ Len(t.reqs) = Min(Len(queues[k].pqs[j].queue), max_batch_size)]_vars

\* a loop iteration admitted a full batch of earlier arrivals and a later
\* arrival of the same queue is still waiting
C12_Witness ==
    /\ lastOp.op = "loop"
    /\ lastOp.outcome = "admitted"
    /\ \E t \in tasks : \E k \in 1..Len(queues) : \E j \in 1..Len(queues[k].pqs) :
          /\ t.type = queues[k].type
          /\ Len(t.reqs) = max_batch_size
          /\ queues[k].pqs[j].queue # <<>>
          /\ t.reqs[1].created_at < queues[k].pqs[j].queue[1].created_at

\* C15: when stop returns, no admitted batch is still executing.
C15_StopAwaitsBatches == lastOp.op = "stop_return" => tasks = {}

\* the execution of the batch raised before any result was produced:
\* _process_embedding_batch extends the text list by the None of a request
RaisedBeforeResults(b) ==
    b.type = "embedding" /\ \E n \in 1..Len(b.reqs) : b.reqs[n].ntexts = NoneTexts

\* C13: when the execution of a batch raised before results were produced,
\* the callback of every request of the batch was called with a failure result
\* for that request.
C13_RaisedBatchFailsAll ==
    (lastOp.op = "batch_end" /\ RaisedBeforeResults(lastBatch)) =>
        \A n \in 1..Len(lastBatch.reqs) :
            lastBatch.calls[n] = <<[for |-> n, success |-> FALSE]>>

\* C14: when the waiter of a request of a batch has timed out, the batch still
\* runs to its end and the callback of every other request of the batch is
\* called exactly once, with the result computed for that request.
C14_TimeoutLeavesOthers ==
    (lastOp.op = "batch_end" /\ \E n \in 1..Len(lastBatch.reqs) : lastBatch.reqs[n].timed_out) =>
        \A m \in 1..Len(lastBatch.reqs) :
            ~lastBatch.reqs[m].timed_out =>
                Len(lastBatch.calls[m]) = 1 /\ lastBatch.calls[m][1].for = m

\* the queues that hold a request
NonEmptyQueues ==
    {<<k, j>> \in (1..Len(queues)) \X (1..MaxPending) :
        j <= Len(queues[k].pqs) /\ queues[k].pqs[j].queue # <<>>}

\* C20: under the hybrid strategy a loop iteration admits every queue whose
\* oldest request has waited at least MaxWaitTime, whatever its priority and
\* its length, when the registry has room for a batch of every queue that
\* holds a request (so that the limit is not reached within the iteration).
C20_HybridAdmitsAged ==
    [][(lastOp'.op = "loop" /\ strategy = "hybrid"
        /\ Cardinality(active_batches) + Cardinality(NonEmptyQueues) <= MaxConcurrentBatches) =>
           \A kj \in NonEmptyQueues :
               LET queue == queues[kj[1]].pqs[kj[2]].queue
               IN now - queue[1].created_at >= MaxWaitTime =>
                      queues'[kj[1]].pqs[kj[2]].queue = ExtractBatchRequests(queue).rest]_vars

\* some queue holds a request that was submitted before the end of the
\* modelled time (once the clock is at MaxTime no such request arrives any more)
EarlyRequestQueued ==
    \E k \in 1..Len(queues) : \E j \in 1..Len(queues[k].pqs) :
        \E n \in 1..Len(queues[k].pqs[j].queue) :
            queues[k].pqs[j].queue[n].created_at < MaxTime

\* C21: under the hybrid strategy, with the loop running and batches
\* finishing, every request submitted before the end of the modelled time
\* eventually leaves its queue for a batch, whatever its priority.
C21_NoStarvation == EarlyRequestQueued ~> ~EarlyRequestQueued

\* C22: in the scenario of three NORMAL completion requests under the hybrid
\* strategy, whenever the requests arrive, the only batch that is ever created
\* contains all three of them.
C22_CoalescedIntoOne ==
    \A t \in tasks : Len(t.reqs) = Cardinality(ScenarioRequests)

RECURSIVE ConcatTexts(_)
ConcatTexts(reqs) ==
    IF reqs = <<>> THEN <<>> ELSE ReqTexts(Head(reqs)) \o ConcatTexts(Tail(reqs))

\* C23: for an embedding batch whose embed call succeeds, one embed call is
\* made with the texts of the requests concatenated in batch order, and the
\* n-th result belongs to the n-th request and holds the vectors of exactly
\* the texts of that request, in order.
C23_SlicedByOffsets ==
    (lastOp.op = "embed_batch" /\ lastBatch.ok) =>
        /\ lastBatch.embed_calls = <<ConcatTexts(lastBatch.reqs)>>
        /\ Len(lastBatch.results) = Len(lastBatch.reqs)
        /\ \A n \in 1..Len(lastBatch.reqs) :
               /\ lastBatch.results[n].request_id = n
               /\ lastBatch.results[n].embeddings = Embeddings(ReqTexts(lastBatch.reqs[n]))

\* C24: a request whose waiting submitter has timed out is not held in a
\* queue any more (so that no later loop iteration can admit it).
C24_TimedOutLeavesQueue ==
    \A k \in 1..Len(queues) : \A j \in 1..Len(queues[k].pqs) :
        \A n \in 1..Len(queues[k].pqs[j].queue) : ~queues[k].pqs[j].queue[n].timed_out

\* the admission condition of the strategy for a queue that holds a request
StrategyCondition(queue) ==
    CASE strategy = "immediate" -> TRUE
      [] strategy = "size_based" -> Len(queue) >= max_batch_size
      [] strategy = "time_based" -> now - queue[1].created_at >= MaxWaitTime
      [] OTHER -> FALSE

\* C30: under the immediate, size-based and time-based strategies a loop
\* iteration that finds one queue holding requests admits that queue if and
\* only if fewer than MaxConcurrentBatches batches are executing and the
\* condition of the strategy holds.
C30_AdmissionIff ==
    [][(/\ lastOp'.op = "loop"
        /\ strategy \in SingleRuleStrategies
        /\ Cardinality(NonEmptyQueues) = 1) =>
           \A kj \in NonEmptyQueues :
               LET queue == queues[kj[1]].pqs[kj[2]].queue
               IN (queues'[kj[1]].pqs[kj[2]].queue # queue) <=>
                      (Cardinality(tasks) < MaxConcurrentBatches
                       /\ StrategyCondition(queue))]_vars

\* C33: every batch that is executing has its own entry in the registry of
\* active batches (no admission has overwritten it).
C33_RunningBatchRegistered ==
    \A t \in tasks : \E e \in active_batches : e.tid = t.tid /\ ~e.done

\* C35: when a batch ends with results, every result was passed to the
\* callback of the request it was computed for, and the callback of every
\* request of the batch received a result.
C35_ResultToOwnCallback ==
    lastOp.op = "batch_end" =>
        LET calls == lastBatch.calls
            N == 1..Len(lastBatch.reqs)
        IN \A n \in N :
              /\ \A i \in 1..Len(calls[n]) : calls[n][i].for = n
              /\ (\E m \in N : calls[m] # <<>>) => calls[n] # <<>>

\* C36: while the processor is stopped (stop has returned, or start was never
\* called) no batch is executing, no batch is admitted and the queues change
\* by submissions only; start on a running processor leaves one processing
\* loop.
C36_StoppedIsQuiet ==
    [][/\ (~running' /\ ~stopping') => tasks' = {}
       /\ (~running /\ ~stopping /\ ~running') =>
              /\ tasks' \subseteq tasks
              /\ lastOp'.op # "submit" => queues' = queues
       /\ lastOp'.op \in {"start", "start_again"} => loops' = 1]_vars

====
